---- MODULE Spec2Model ----
(***************************************************************************)
(* A model of the finget dashboard: the in-memory fixed-window rate        *)
(* limiter shared by the server-side proxy routes, the proxy routes        *)
(* themselves, the Redux store of the client (widgets and theme slices),   *)
(* dashboard export/import, and the data adapters.                         *)
(***************************************************************************)
EXTENDS Integers, Sequences, FiniteSets, TLC

(***************************************************************************)
(* Program constants of the rate limiter (api/rateLimit).                  *)
(***************************************************************************)
WINDOW_SIZE == 60000

MAX_REQUESTS == 60

(***************************************************************************)
(* Bounds of the model.                                                    *)
(***************************************************************************)
\* the clock (Date.now(), in ms since the server started) stops at MaxNow
MaxNow == 60001

\* the clock is read at most MaxSkew ms after a multiple of WINDOW_SIZE
MaxSkew == 1

\* identifiers (client IPs) the limiter is called with
Identifiers == {"10.0.0.1", "unknown"}

\* amounts by which the clock advances between two events
ClockSteps == {1, WINDOW_SIZE}

\* upstream fetches that may be awaited at the same time
MaxInFlight == 1

VARIABLES
    now,            \* Date.now() on the server
    rateLimitStore, \* the Map identifier -> {count, windowStart}
    refStore,       \* the same limiter run on the same calls without any sweep
    allowedSince,   \* per identifier: calls allowed since its window started
    retryAt,        \* per identifier: the time the last rejection told it to
                    \* retry at (now + retryAfter s), -1 once a call was allowed
    lastCall        \* the last limiter call: its result, the reference result
                    \* and, for rateLimitMiddleware, the store it found

limiterVars == <<now, rateLimitStore, refStore, allowedSince, retryAt, lastCall>>

VARIABLES
    inflight,       \* the upstream fetches that have not settled yet
    lastRequest,    \* the request handled last: route, decision, response
    openedBy        \* per identifier: whether the request that opened its
                    \* window came to the generic proxy or to another route

routeVars == <<inflight, lastRequest, openedBy>>

VARIABLES
    widgets,          \* state.widgets.widgets of the Redux store
    selectedWidgetId, \* state.widgets.selectedWidgetId
    theme,            \* state.theme.theme
    prefersDark,      \* matchMedia('(prefers-color-scheme: dark)').matches
    rootClass,        \* the class among 'light', 'dark' on document.documentElement
    exportFile,       \* the file handleExport downloaded last
    lastImport        \* whether the last event was an import, and of which file

storeVars == <<widgets, selectedWidgetId, theme, prefersDark, rootClass,
               exportFile, lastImport>>

VARIABLES
    firstResult,      \* per adapter call (function and arguments): what the first
                      \* call with these arguments returned
    lastAdapterCall   \* the adapter call made last and what it returned

adapterVars == <<firstResult, lastAdapterCall>>

VARIABLES
    mounted,              \* whether the stock page is mounted, or was
    selectedTimeFrame,    \* the state selectedTimeFrame of the page
    refreshIntervalState, \* the state refreshInterval of the page, with the
                          \* update of the last setRefreshInterval
    timers,               \* the live timers of setInterval: the id and the
                          \* selectedTimeFrame of the callback's closure
    timerCount,           \* the number of timers created so far
    autoRefresh,          \* the last run of the auto-refresh effect: its
                          \* interval and the selectedTimeFrame it ran for
    cleanupInterval,      \* the refreshInterval held by the cleanup of the
                          \* last run of the unmount effect
    refetched             \* per query: the number of calls of its refetch

pageVars == <<mounted, selectedTimeFrame, refreshIntervalState, timers, timerCount,
              autoRefresh, cleanupInterval, refetched>>

serverVars == <<limiterVars, routeVars>>

clientVars == <<storeVars, adapterVars, pageVars>>

vars == <<serverVars, clientVars>>

(***************************************************************************)
(* The rate limiter.                                                       *)
(***************************************************************************)
\* Math.ceil(x / d) for an integer x and d > 0
Ceil(x, d) == -((-x) \div d)

\* Math.max
Max(a, b) == IF a >= b THEN a ELSE b

\* Map.set
MapSet(store, id, entry) ==
    [k \in DOMAIN store \cup {id} |-> IF k = id THEN entry ELSE store[k]]

\* the test "(now - entry.windowStart) > WINDOW_SIZE" of the three functions
Expired(entry, t) == (t - entry.windowStart) > WINDOW_SIZE

\* a variant of the test below that forgets the age of the entry: "!entry"
NoLiveEntryNeverExpires(store, id, t) == id \notin DOMAIN store

\* the test "!entry || (now - entry.windowStart) > WINDOW_SIZE"
NoLiveEntry(store, id, t) ==
    \/ id \notin DOMAIN store
    \/ Expired(store[id], t)

\* a variant of the test below that is off by one: "entry.count > MAX_REQUESTS"
AtLimitOffByOne(entry) == entry.count > MAX_REQUESTS

\* the test "entry.count >= MAX_REQUESTS"
AtLimit(entry) == entry.count >= MAX_REQUESTS

\* rateLimitMiddleware: the value it returns
LimitResult(store, id, t) ==
    IF NoLiveEntry(store, id, t)
    THEN [allowed |-> TRUE]
    ELSE IF AtLimit(store[id])
         THEN [allowed |-> FALSE,
               retryAfter |-> Ceil(store[id].windowStart + WINDOW_SIZE - t, 1000)]
         ELSE [allowed |-> TRUE]

\* a variant of the store below that keeps one window only: a new window
\* replaces the whole store
LimitStoreOneWindow(store, id, t) ==
    IF NoLiveEntry(store, id, t)
    THEN [k \in {id} |-> [count |-> 1, windowStart |-> t]]
    ELSE IF AtLimit(store[id])
         THEN store
         ELSE MapSet(store, id, [count |-> store[id].count + 1,
                                 windowStart |-> store[id].windowStart])

\* a variant of the store below that counts the rejected calls too
LimitStoreCountsRejected(store, id, t) ==
    IF NoLiveEntry(store, id, t)
    THEN MapSet(store, id, [count |-> 1, windowStart |-> t])
    ELSE MapSet(store, id, [count |-> store[id].count + 1,
                            windowStart |-> store[id].windowStart])

\* rateLimitMiddleware: the store it leaves
LimitStore(store, id, t) ==
    IF NoLiveEntry(store, id, t)
    THEN MapSet(store, id, [count |-> 1, windowStart |-> t])
    ELSE IF AtLimit(store[id])
         THEN store
         ELSE MapSet(store, id, [count |-> store[id].count + 1,
                                 windowStart |-> store[id].windowStart])

\* a variant of the function below that forgets the age of the entry
getRateLimitStatusOfAnyAge(store, id, t) ==
    IF id \notin DOMAIN store
    THEN [remaining |-> MAX_REQUESTS,
          resetTime |-> Ceil(t + WINDOW_SIZE, 1000)]
    ELSE [remaining |-> Max(0, MAX_REQUESTS - store[id].count),
          resetTime |-> Ceil(store[id].windowStart + WINDOW_SIZE, 1000)]

\* getRateLimitStatus
getRateLimitStatus(store, id, t) ==
    IF NoLiveEntry(store, id, t)
    THEN [remaining |-> MAX_REQUESTS,
          resetTime |-> Ceil(t + WINDOW_SIZE, 1000)]
    ELSE [remaining |-> Max(0, MAX_REQUESTS - store[id].count),
          resetTime |-> Ceil(store[id].windowStart + WINDOW_SIZE, 1000)]

\* a variant of the sweep below that deletes an entry one millisecond early:
\* "now - entry.windowStart >= WINDOW_SIZE"
SweptEager(store, t) ==
    LET keep == {k \in DOMAIN store : ~((t - store[k].windowStart) >= WINDOW_SIZE)}
    IN  [k \in keep |-> store[k]]

\* the setInterval callback: delete every entry whose window has expired
Swept(store, t) ==
    LET keep == {k \in DOMAIN store : ~Expired(store[k], t)}
    IN  [k \in keep |-> store[k]]

\* new Map()
EmptyMap == [k \in {} |-> 0]

NoCall == [op |-> "none"]

\* the bookkeeping of the calls allowed since the window started
CountAllowed(since, id, res, after) ==
    IF ~res.allowed THEN since
    ELSE [since EXCEPT ![id] =
            IF @.start = after[id].windowStart
            THEN [@ EXCEPT !.n = @ + 1]
            ELSE [start |-> after[id].windowStart, n |-> 1]]

\* the bookkeeping of the time a rejected caller was told to retry at
RetryTime(retry, id, res, t) ==
    [retry EXCEPT ![id] = IF res.allowed THEN -1 ELSE t + res.retryAfter * 1000]

(***************************************************************************)
(* The proxy routes (app/api/.../route.ts).  A GET handler runs without    *)
(* interruption up to its "await fetch"; the rest of it runs when the      *)
(* upstream fetch settles.                                                 *)
(***************************************************************************)
Routes == {"proxy", "alphavantage", "coinbase/candles", "coinbase/spark-lines",
           "indianapi/list", "indianapi/stocks", "indianapi/history"}

\* the routes that read process.env.INDIAN_STOCK_API
IndianRoutes == {"indianapi/list", "indianapi/stocks", "indianapi/history"}

\* the routes that send the key upstream, in the X-Api-Key header
KeyedRoutes == {"indianapi/list", "indianapi/stocks"}

\* the routes that require the symbol parameter
SymbolRoutes == {"coinbase/candles", "indianapi/stocks", "indianapi/history"}

\* a variant of the list below that has a seventh function
SupportedWithForex == {"TIME_SERIES_INTRADAY", "TIME_SERIES_DAILY",
                       "TIME_SERIES_WEEKLY", "TIME_SERIES_MONTHLY",
                       "GLOBAL_QUOTE", "SYMBOL_SEARCH", "FX_DAILY"}

SUPPORTED_FUNCTIONS == {"TIME_SERIES_INTRADAY", "TIME_SERIES_DAILY",
                        "TIME_SERIES_WEEKLY", "TIME_SERIES_MONTHLY",
                        "GLOBAL_QUOTE", "SYMBOL_SEARCH"}

\* a header, query parameter or environment variable that is not set
Missing == "<missing>"

\* JavaScript's undefined, as the value of a body field
Undefined == "<undefined>"

\* header values are sequences of characters; an address counts as one
Blank == " "

Comma == ","

\* String.prototype.split(',')[0]
RECURSIVE FirstField(_)
FirstField(str) ==
    IF str = <<>> \/ Head(str) = Comma THEN <<>>
    ELSE <<Head(str)>> \o FirstField(Tail(str))

\* String.prototype.trim
RECURSIVE TrimStart(_)
TrimStart(str) ==
    IF str # <<>> /\ Head(str) = Blank THEN TrimStart(Tail(str)) ELSE str

RECURSIVE TrimEnd(_)
TrimEnd(str) ==
    IF str # <<>> /\ str[Len(str)] = Blank
    THEN TrimEnd(SubSeq(str, 1, Len(str) - 1))
    ELSE str

Trim(str) == TrimEnd(TrimStart(str))

\* a query parameter or an environment variable is falsy when absent or empty
Falsy(v) == v = Missing \/ v = ""

\* headers.get gives null for an absent header: null and the empty value,
\* both falsy, are the empty sequence
NoHeader == <<>>

\* the identifier the limiter is keyed by: the characters of the address
ClientIdentifier(xff, xreal) ==
    LET clientIP == IF xff # NoHeader THEN xff
                    ELSE IF xreal # NoHeader THEN xreal
                    ELSE <<"unknown">>
        id == Trim(FirstField(clientIP))
    IN  IF Len(id) = 1 THEN id[1] ELSE ""

\* texts (messages, header values) are sequences of pieces, so that a number
\* can be written into them
Text(str) == <<str>>

Digit(d) ==
    CASE d = 0 -> "0" [] d = 1 -> "1" [] d = 2 -> "2" [] d = 3 -> "3" [] d = 4 -> "4"
      [] d = 5 -> "5" [] d = 6 -> "6" [] d = 7 -> "7" [] d = 8 -> "8" [] OTHER -> "9"

\* Number.prototype.toString of an integer: its decimal digits
RECURSIVE NumStr(_)
NumStr(n) ==
    IF n < 0 THEN <<"-">> \o NumStr(-n)
    ELSE IF n < 10 THEN <<Digit(n)>>
    ELSE NumStr(n \div 10) \o <<Digit(n % 10)>>

NoHeaders == [k \in {} |-> <<>>]

\* NextResponse.json(body, {status, headers})
Json(status, body, headers) == [status |-> status, body |-> body, headers |-> headers]

\* no response yet: the handler goes on
NoResponse == Json(0, [error |-> <<>>], NoHeaders)

\* the 429 answer of every route
RateLimitExceeded(res, st) ==
    Json(429,
         [error |-> Text("Rate limit exceeded"), retryAfter |-> res.retryAfter],
         [limit |-> <<"6", "0">>,
          remaining |-> NumStr(st.remaining),
          reset |-> NumStr(st.resetTime),
          retryAfter |-> IF "retryAfter" \in DOMAIN res /\ NumStr(res.retryAfter) # <<>>
                         THEN NumStr(res.retryAfter)
                         ELSE <<"6", "0">>])

\* a variant of the test below that lets every request through
ProceedsAnyway(res) == TRUE

\* "if (!rateLimitResult.allowed) { ... return 429 }": the handler goes on
\* only when this holds
Proceeds(res) == res.allowed

\* a variant of the checks below that leaves the check of the API key to
\* the rest of the handler
EarlyResponseBeforeKeyCheck(route, req, key) ==
    IF route = "alphavantage"
         /\ (Falsy(req.function) \/ req.function \notin SUPPORTED_FUNCTIONS)
    THEN Json(400, [error |-> Text("Invalid function"),
                    supportedFunctions |-> SUPPORTED_FUNCTIONS],
              NoHeaders)
    ELSE IF route \in SymbolRoutes /\ Falsy(req.symbol)
    THEN Json(400, [error |-> Text("Missing required parameter: symbol")], NoHeaders)
    ELSE NoResponse

\* the checks a route makes before it calls rateLimitMiddleware:
\* a response, or Missing when the request passes them
EarlyResponse(route, req, key) ==
    IF route = "alphavantage"
         /\ (Falsy(req.function) \/ req.function \notin SUPPORTED_FUNCTIONS)
    THEN Json(400, [error |-> Text("Invalid function"),
                    supportedFunctions |-> SUPPORTED_FUNCTIONS],
              NoHeaders)
    ELSE IF route \in SymbolRoutes /\ Falsy(req.symbol)
    THEN Json(400, [error |-> Text("Missing required parameter: symbol")], NoHeaders)
    ELSE IF route \in IndianRoutes /\ Falsy(key)
    THEN Json(500, [error |-> Text("IndianAPI key not configured"),
                    message |-> Text("Please set INDIAN_STOCK_API environment variable")],
              NoHeaders)
    ELSE NoResponse

Passes(response) == response = NoResponse

\* the checks the generic proxy makes after rateLimitMiddleware allowed the request
UrlResponse(route, req) ==
    IF route = "proxy" /\ Falsy(req.url.text)
    THEN Json(400, [error |-> Text("URL parameter required")], NoHeaders)
    ELSE IF route = "proxy" /\ ~req.url.valid
    THEN Json(400, [error |-> Text("Invalid URL format")], NoHeaders)
    ELSE NoResponse

\* the upstream request a route sends
UpstreamRequest(route, req, key) ==
    [to |-> route,
     symbol |-> IF route \in {"alphavantage", "coinbase/candles", "indianapi/stocks"}
                THEN req.symbol ELSE Missing,
     apiKeyHeader |-> IF route \in KeyedRoutes THEN key ELSE Missing]

\* the field of an upstream body, undefined when absent
Field(data, f) ==
    IF f \in DOMAIN data.fields THEN data.fields[f] ELSE Text(Undefined)

Truthy(v) == v # Text(Undefined) /\ v # <<>>

\* the max-age of the alphavantage route's successful answers
\* (of the supported functions, func.includes('DAILY') holds of one, and
\* func.includes('WEEKLY') of one)
CacheTime(func) ==
    IF func = "TIME_SERIES_INTRADAY" THEN 60
    ELSE IF func = "TIME_SERIES_DAILY" THEN 300
    ELSE IF func = "TIME_SERIES_WEEKLY" THEN 900
    ELSE 1800

CorsHeaders(cache) ==
    [contentType |-> Text("application/json"), allowOrigin |-> Text("*"),
     allowMethods |-> Text("GET"), allowHeaders |-> Text("Content-Type"),
     cacheControl |-> cache]

RateHeaders(st, cache) ==
    [limit |-> <<"6", "0">>, remaining |-> NumStr(st.remaining),
     reset |-> NumStr(st.resetTime), allowOrigin |-> Text("*"),
     allowMethods |-> Text("GET"), allowHeaders |-> Text("Content-Type"),
     cacheControl |-> cache]

\* "details: process.env.NODE_ENV === 'development' ... ? error.message : undefined"
Details(env, message) == IF env = "development" THEN message ELSE Text(Undefined)

\* the message of the error a route throws on a non-OK upstream status
RespondedWith(who, outcome) ==
    <<who, " responded with ">> \o NumStr(outcome.status)

\* a variant of the catch block below without the test of error.name
CaughtWhateverName(route, failed, errorName, message, env) ==
    IF route = "proxy"
    THEN Json(500, [error |-> Text(failed), details |-> message], NoHeaders)
    ELSE Json(500, [error |-> Text(failed), details |-> Details(env, message)], NoHeaders)

\* what the catch block of a route answers
Caught(route, failed, errorName, message, env) ==
    IF errorName = "AbortError"
    THEN Json(408, [error |-> Text("Request timeout")], NoHeaders)
    ELSE IF route = "proxy"
    THEN Json(500, [error |-> Text(failed), details |-> message], NoHeaders)
    ELSE Json(500, [error |-> Text(failed), details |-> Details(env, message)], NoHeaders)

FailedText(route) ==
    CASE route = "proxy" -> "Failed to fetch data"
      [] route = "alphavantage" -> "Failed to fetch AlphaVantage data"
      [] route = "coinbase/candles" -> "Failed to fetch Coinbase candles data"
      [] route = "coinbase/spark-lines" -> "Failed to fetch Coinbase spark-lines data"
      [] route = "indianapi/list" -> "Failed to fetch IndianAPI list data"
      [] route = "indianapi/stocks" -> "Failed to fetch IndianAPI stocks data"
      [] OTHER -> "Failed to fetch IndianAPI history data"

\* a variant of the answer below that reports the apiKey in its details
SettledLeaky(route, func, key, outcome, env, st) ==
    Json(500, [error |-> FailedText(route), details |-> Text(key)], NoHeaders)

\* the answer of a route once its upstream fetch has settled with outcome;
\* key is the apiKey of the handler's closure, st the getRateLimitStatus
\* the generic proxy and alphavantage read for their headers
Settled(route, func, key, outcome, env, st) ==
    LET failed == FailedText(route)
        data == outcome.data
    IN
    IF outcome.kind = "throw"
    THEN Caught(route, failed, outcome.name, Text("fetch failed"), env)
    ELSE IF outcome.kind = "status"
    THEN IF route \in {"proxy", "alphavantage"}
         THEN Json(outcome.status,
                   [error |-> (IF route = "proxy" THEN Text("Upstream API error: ")
                               ELSE Text("AlphaVantage API error: "))
                              \o NumStr(outcome.status)],
                   NoHeaders)
         ELSE Caught(route, failed, "Error",
                     RespondedWith(IF route \in IndianRoutes THEN "IndianAPI"
                                   ELSE "Coinbase API", outcome), env)
    ELSE IF data.kind = "invalid"
    THEN Caught(route, failed, "SyntaxError", Text("Unexpected token"), env)
    ELSE IF route = "proxy"
    THEN Json(200, data, RateHeaders(st, Text("public, max-age=300")))
    ELSE IF data.kind = "null"
    THEN Caught(route, failed, "TypeError", Text("Cannot read properties of null"), env)
    ELSE IF route = "alphavantage"
    THEN IF Truthy(Field(data, "Error Message"))
         THEN Json(400, [error |-> Text("AlphaVantage API Error"),
                         message |-> Field(data, "Error Message")], NoHeaders)
         ELSE IF Truthy(Field(data, "Note"))
         THEN Json(429, [error |-> Text("AlphaVantage Rate Limit"),
                         message |-> Field(data, "Note")], NoHeaders)
         ELSE Json(200, data, RateHeaders(st, Text("public, max-age=") \o NumStr(CacheTime(func))))
    ELSE IF route \in {"coinbase/candles", "coinbase/spark-lines"}
    THEN IF Truthy(Field(data, "message"))
         THEN Json(400, [error |-> Text("Coinbase API Error"),
                         message |-> Field(data, "message"), data |-> data], NoHeaders)
         ELSE Json(200, data,
                   CorsHeaders(IF route = "coinbase/candles"
                               THEN Text("public, max-age=60, stale-while-revalidate=120")
                               ELSE Text("public, max-age=30, stale-while-revalidate=60")))
    ELSE IF Truthy(Field(data, "error")) \/ Truthy(Field(data, "Error"))
    THEN Json(400, [error |-> Text("IndianAPI Error"),
                    message |-> IF Truthy(Field(data, "error")) THEN Field(data, "error")
                                ELSE Field(data, "Error"),
                    data |-> data], NoHeaders)
    ELSE Json(200, data,
              CorsHeaders(IF route = "indianapi/stocks"
                          THEN Text("public, max-age=60, stale-while-revalidate=120")
                          ELSE Text("public, max-age=300, stale-while-revalidate=600")))

\* the mock data of the history route (Math.random and the date of the day)
MockHistory(symbol, draw) ==
    [kind |-> "object",
     fields |-> [symbol |-> Text(symbol), status |-> Text("success"),
                 data |-> <<"mock candles", draw>>]]

(***************************************************************************)
(* The requests, environments and upstream outcomes the routes are run on. *)
(***************************************************************************)
XForwardedFor == {NoHeader, <<Blank, "10.0.0.1", Blank, Comma, Blank, "10.0.0.2">>}

XRealIp == {NoHeader, <<"10.0.0.1">>}

Urls == {[text |-> Missing, valid |-> FALSE],
         [text |-> "not a url", valid |-> FALSE],
         [text |-> "https://api.example.com/data", valid |-> TRUE]}

Functions == {Missing, "TIME_SERIES_DAILY", "TIME_SERIES_INTRADAY", "FX_DAILY"}

\* draws of Math.random in the mock data
MockDraws == {1, 2}

Symbols == {Missing, "TCS"}

NoUrl == [text |-> Missing, valid |-> FALSE]

\* the requests a route is run on: the parameters it does not read are
\* absent; x-real-ip is always set, and x-forwarded-for varies on two routes
Requests(route) ==
    [xff : IF route \in {"proxy", "indianapi/stocks"} THEN XForwardedFor ELSE {NoHeader},
     xreal : XRealIp \ {NoHeader},
     url : IF route = "proxy" THEN Urls ELSE {NoUrl},
     function : IF route = "alphavantage" THEN Functions ELSE {Missing},
     symbol : IF route \in SymbolRoutes THEN Symbols ELSE {Missing}]


ConfiguredKeys == {"key-A", "key-B"}

\* the other configured value of INDIAN_STOCK_API
OtherKey(key) ==
    IF key = "key-A" THEN "key-B" ELSE IF key = "key-B" THEN "key-A" ELSE key

\* the values of INDIAN_STOCK_API a route is run with
Keys(route) == IF route \in IndianRoutes THEN {"key-A", Missing} ELSE {Missing}

\* the values of NODE_ENV
NodeEnvs == {"development", "production"}

Bodies == {[kind |-> "object", fields |-> [quotes |-> Text("q1")]],
           [kind |-> "object", fields |-> [error |-> Text("bad symbol")]],
           [kind |-> "object", fields |-> [message |-> Text("NotFound")]],
           [kind |-> "object", fields |-> [Note |-> Text("call frequency")]],
           [kind |-> "null", fields |-> NoHeaders],
           [kind |-> "invalid", fields |-> NoHeaders]}

NoBody == [kind |-> "null", fields |-> NoHeaders]

\* the names of the errors the awaited fetch may reject with: the signal
\* aborts (AbortError, or TimeoutError from AbortSignal.timeout) or the
\* connection fails (TypeError)
ErrorNames == {"AbortError", "TimeoutError", "TypeError"}

NoOutcome == [kind |-> "none", status |-> 0, name |-> "", data |-> NoBody]

\* how an upstream fetch settles: an OK response with a body, a response
\* with another status, or a rejection
Outcomes == {[kind |-> "ok", status |-> 200, name |-> "", data |-> b] : b \in Bodies}
            \cup {[kind |-> "status", status |-> n, name |-> "", data |-> NoBody] :
                     n \in {404, 503}}
            \cup {[kind |-> "throw", status |-> 0, name |-> n, data |-> NoBody] :
                     n \in ErrorNames}

\* Date.now() read a second time in the same handler
LaterReadings == {now} \cup {t \in {now + 1} : t <= MaxNow /\ t % WINDOW_SIZE <= MaxSkew}

\* what is kept of a response: its status, its headers, whether it is the
\* limiter's 429, and whether it is the response the handler gives with the
\* other API key
Summary(response, twin) ==
    [status |-> response.status,
     headers |-> response.headers,
     limited |-> response.status = 429
                 /\ response.body.error = Text("Rate limit exceeded")
                 /\ DOMAIN response.headers = {"limit", "remaining", "reset", "retryAfter"},
     keyFree |-> response = twin]

\* the query parameters of a request
Params(req) == [url |-> req.url, function |-> req.function, symbol |-> req.symbol]

NoRequest == [route |-> "none", decision |-> "none", fetched |-> FALSE,
              configured |-> FALSE, windowStart |-> -1,
              params |-> [url |-> NoUrl, function |-> Missing, symbol |-> Missing],
              outcome |-> NoOutcome, before |-> [k \in {} |-> 0],
              body |-> NoResponse.body,
              response |-> Summary(NoResponse, NoResponse)]


(***************************************************************************)
(* JSON text.  A text is the sequence of its tokens (white space, commas   *)
(* and colons are left to the lexer); JSON.stringify writes it from a      *)
(* value of the store, JSON.parse reads it into a value that carries its   *)
(* JavaScript type.                                                        *)
(***************************************************************************)
\* null, as a value of the store
Null == "<null>"

\* the keys the values of the dashboard use, by the type of what they hold
StringKeys == {"version", "timestamp", "id", "type", "title", "apiSource",
               "apiUrl", "symbols", "region", "cryptoPairs"}

NumberKeys == {"x", "y", "w", "h", "refreshInterval"}

ObjectKeys == {"config", "mapping"}

ArrayKeys == {"widgets"}

\* the members of an object are written in this order (the order of the
\* members of an object is not kept by the model)
KeyOrder == <<"version", "timestamp", "widgets", "type", "title", "config",
              "apiSource", "refreshInterval", "mapping", "symbols", "region",
              "cryptoPairs", "apiUrl", "x", "y", "w", "h", "id">>

Punct(p) == [tok |-> p]

Token(kind, v) == [tok |-> kind, v |-> v]

RECURSIVE StringifyObject(_), StringifyMembers(_, _), StringifyArray(_, _)

\* JSON.stringify of the value held under key k
StringifyValue(k, v) ==
    IF k \in ObjectKeys THEN StringifyObject(v)
    ELSE IF k \in ArrayKeys
         THEN <<Punct("[")>> \o StringifyArray(v, 1) \o <<Punct("]")>>
    ELSE IF k \in NumberKeys THEN <<Token("number", v)>>
    ELSE <<Token("string", v)>>

StringifyMembers(obj, i) ==
    IF i > Len(KeyOrder) THEN <<>>
    ELSE (IF KeyOrder[i] \in DOMAIN obj
          THEN <<Token("key", KeyOrder[i])>> \o StringifyValue(KeyOrder[i], obj[KeyOrder[i]])
          ELSE <<>>)
         \o StringifyMembers(obj, i + 1)

StringifyObject(obj) == <<Punct("{")>> \o StringifyMembers(obj, 1) \o <<Punct("}")>>

StringifyArray(items, i) ==
    IF i > Len(items) THEN <<>>
    ELSE StringifyObject(items[i]) \o StringifyArray(items, i + 1)

\* JSON.parse throws a SyntaxError
SyntaxError == [ok |-> FALSE]

Parsed(v, next) == [ok |-> TRUE, v |-> v, next |-> next]

RECURSIVE ParseValue(_, _), ParseMembers(_, _, _), ParseItems(_, _, _),
          AfterMember(_, _, _, _), AfterItem(_, _, _)

\* the value that starts at token i, and the position after it
ParseValue(text, i) ==
    IF i > Len(text) THEN SyntaxError
    ELSE CASE text[i].tok = "string" -> Parsed([t |-> "string", v |-> text[i].v], i + 1)
           [] text[i].tok = "number" -> Parsed([t |-> "number", v |-> text[i].v], i + 1)
           [] text[i].tok = "null"   -> Parsed([t |-> "null"], i + 1)
           [] text[i].tok = "{"      -> ParseMembers(text, i + 1, [k \in {} |-> 0])
           [] text[i].tok = "["      -> ParseItems(text, i + 1, <<>>)
           [] OTHER                  -> SyntaxError

ParseMembers(text, i, members) ==
    IF i > Len(text) THEN SyntaxError
    ELSE IF text[i].tok = "}" THEN Parsed([t |-> "object", v |-> members], i + 1)
    ELSE IF text[i].tok # "key" THEN SyntaxError
    ELSE AfterMember(text, members, text[i].v, ParseValue(text, i + 1))

\* the members of an object once the member under key is read
AfterMember(text, members, key, member) ==
    IF ~member.ok THEN SyntaxError
    ELSE ParseMembers(text, member.next,
                      [k \in DOMAIN members \cup {key} |->
                          IF k = key THEN member.v ELSE members[k]])

ParseItems(text, i, items) ==
    IF i > Len(text) THEN SyntaxError
    ELSE IF text[i].tok = "]" THEN Parsed([t |-> "array", v |-> items], i + 1)
    ELSE AfterItem(text, items, ParseValue(text, i))

\* the items of an array once one more item is read
AfterItem(text, items, item) ==
    IF ~item.ok THEN SyntaxError
    ELSE ParseItems(text, item.next, Append(items, item.v))

\* the value read must be the whole text
Whole(text, value) ==
    IF value.ok /\ value.next = Len(text) + 1
    THEN [ok |-> TRUE, v |-> value.v]
    ELSE SyntaxError

\* JSON.parse
JSONparse(text) == Whole(text, ParseValue(text, 1))

RECURSIVE Plain(_), PlainItems(_, _)

\* a parsed value as the store holds it
Plain(value) ==
    CASE value.t = "object" -> [k \in DOMAIN value.v |-> Plain(value.v[k])]
      [] value.t = "array"  -> PlainItems(value.v, 1)
      [] value.t = "null"   -> Null
      [] OTHER              -> value.v

PlainItems(items, i) ==
    IF i > Len(items) THEN <<>>
    ELSE <<Plain(items[i])>> \o PlainItems(items, i + 1)

\* importData.widgets
WidgetsOf(importData) ==
    IF importData.t = "object" /\ "widgets" \in DOMAIN importData.v
    THEN importData.v["widgets"]
    ELSE [t |-> "undefined"]

\* a value in a condition
TruthyValue(value) ==
    CASE value.t \in {"undefined", "null"} -> FALSE
      [] value.t = "string" -> value.v # ""
      [] value.t = "number" -> value.v # 0
      [] OTHER -> TRUE

\* Array.isArray
IsArray(value) == value.t = "array"

(***************************************************************************)
(* The widgets slice of the store.                                         *)
(***************************************************************************)
\* widget.id, undefined for an object without an id
WidgetId(widget) == IF "id" \in DOMAIN widget THEN widget.id ELSE Undefined

\* { ...obj, ...updates }
Spread(obj, updates) ==
    [k \in DOMAIN obj \cup DOMAIN updates |->
        IF k \in DOMAIN updates THEN updates[k] ELSE obj[k]]

\* state.widgets.findIndex(widget => widget.id === id), 0 for -1
FindIndex(list, id) ==
    IF \E i \in 1..Len(list) : WidgetId(list[i]) = id
    THEN CHOOSE i \in 1..Len(list) :
            /\ WidgetId(list[i]) = id
            /\ \A j \in 1..(i - 1) : WidgetId(list[j]) # id
    ELSE 0

\* the widget addWidget pushes
NewWidget(payload, id) == Spread(payload, [id |-> id])

\* removeWidget: state.widgets.filter(widget => widget.id !== id)
Without(list, id) == SelectSeq(list, LAMBDA widget : WidgetId(widget) # id)

\* updateWidget
Updated(list, id, updates) ==
    LET widgetIndex == FindIndex(list, id)
    IN  IF widgetIndex # 0
        THEN [list EXCEPT ![widgetIndex] = Spread(list[widgetIndex], updates)]
        ELSE list

RECURSIVE LaidOut(_, _, _)

\* updateLayout: the layout items applied from item j on
LaidOut(list, layout, j) ==
    IF j > Len(layout) THEN list
    ELSE LaidOut(Updated(list, layout[j].i,
                         [x |-> layout[j].x, y |-> layout[j].y,
                          w |-> layout[j].w, h |-> layout[j].h]),
                 layout, j + 1)

\* a variant of the reducer below that appends: state.widgets.push(...payload)
ImportedAppended(list, payload) == list \o payload

\* importDashboard: state.widgets after it
Imported(list, payload) == payload

\* widgetTypes[..].defaultSize
DefaultSize(type) ==
    IF type = "custom-table" THEN [w |-> 6, h |-> 4] ELSE [w |-> 8, h |-> 6]

\* handleCreate: defaultConfig
DefaultConfig(type, customUrl) ==
    LET apiSource == IF type = "stock-table" THEN "indianapi"
                     ELSE IF type = "crypto-table" THEN "coinbase" ELSE "custom"
        base == [apiSource |-> apiSource, refreshInterval |-> 60,
                 mapping |-> [k \in {} |-> ""]]
    IN  IF type = "stock-table"
        THEN Spread(base, [symbols |-> "RELIANCE,TCS,HDFCBANK,INFY,ICICIBANK",
                           region |-> "India"])
        ELSE IF type = "crypto-table"
        THEN Spread(base, [cryptoPairs |-> "BTC-USD,ETH-USD,SOL-USD,ADA-USD,DOT-USD"])
        ELSE Spread(base, [apiUrl |-> customUrl])

\* handleCreate: newWidget
CreatedWidget(type, title, customUrl) ==
    [type |-> type, title |-> title, config |-> DefaultConfig(type, customUrl),
     x |-> 0, y |-> 0, w |-> DefaultSize(type).w, h |-> DefaultSize(type).h]

\* the widgets react-grid-layout can place
Placed(widget) == {"id", "x", "y", "w", "h"} \subseteq DOMAIN widget

RECURSIVE Heights(_, _)

\* the rows taken by the placed widgets before widget i
Heights(list, i) ==
    IF i <= 1 THEN 0
    ELSE Heights(list, i - 1) + (IF Placed(list[i - 1]) THEN list[i - 1].h ELSE 0)

RECURSIVE GridLayout(_, _, _)

\* the layout the grid reports: the placed widgets side by side, or stacked
GridLayout(list, arrangement, i) ==
    IF i > Len(list) THEN <<>>
    ELSE (IF Placed(list[i])
          THEN <<[i |-> list[i].id, x |-> list[i].x,
                  y |-> IF arrangement = "stacked" THEN Heights(list, i) ELSE 0,
                  w |-> list[i].w, h |-> list[i].h]>>
          ELSE <<>>)
         \o GridLayout(list, arrangement, i + 1)

(***************************************************************************)
(* The theme slice and the ThemeProvider.                                  *)
(***************************************************************************)
Themes == {"light", "dark", "system"}

\* toggleTheme: state.theme after it
Toggled(current) == IF current = "light" THEN "dark" ELSE "light"

\* the class the effect of ThemeProvider adds to the root element
AppliedClass(current, dark) ==
    IF current = "system" THEN (IF dark THEN "dark" ELSE "light") ELSE current

\* the root class once React has run the effects: the effect depends on
\* [theme] and runs only when the theme has changed
AfterEffects(before, after, dark, class) ==
    IF after # before THEN AppliedClass(after, dark) ELSE class

(***************************************************************************)
(* Inputs of the client.                                                   *)
(***************************************************************************)
\* widgets on the dashboard
MaxWidgets == 2

\* ids addWidget may draw (Date.now() and Math.random() are inputs)
WidgetIds == {"widget-1", "widget-2"}

\* types chosen in the "add widget" dialog
SelectedTypes == {"stock-table", "custom-table"}

\* titles typed in the "add widget" dialog
Titles == {"", "Watchlist"}

\* the value of a decimal digit, -1 for another character
DigitValue(c) ==
    CASE c = "0" -> 0 [] c = "1" -> 1 [] c = "2" -> 2 [] c = "3" -> 3 [] c = "4" -> 4
      [] c = "5" -> 5 [] c = "6" -> 6 [] c = "7" -> 7 [] c = "8" -> 8 [] c = "9" -> 9
      [] OTHER -> -1

\* the number of the longest prefix of digits of str, read after acc; seen
\* tells whether a digit was read
RECURSIVE DigitsPrefix(_, _, _)
DigitsPrefix(str, acc, seen) ==
    IF str = <<>> \/ DigitValue(Head(str)) < 0
    THEN [nan |-> ~seen, v |-> acc]
    ELSE DigitsPrefix(Tail(str), acc * 10 + DigitValue(Head(str)), TRUE)

\* parseInt(str): white space, a sign, then digits up to the first other
\* character; NaN when there is no digit
parseInt(str) ==
    LET t == TrimStart(str)
        negative == t # <<>> /\ Head(t) = "-"
        digits == IF t # <<>> /\ Head(t) \in {"-", "+"} THEN Tail(t) ELSE t
        n == DigitsPrefix(digits, 0, FALSE)
    IN  IF n.nan THEN n ELSE [nan |-> FALSE, v |-> IF negative THEN -n.v ELSE n.v]

\* "parseInt(e.target.value) || 60": NaN and 0 are falsy
RefreshIntervalTyped(value) ==
    LET n == parseInt(value)
    IN  IF n.nan \/ n.v = 0 THEN 60 ELSE n.v

\* "pollingInterval: widget.config.refreshInterval * 1000"
PollingInterval(widget) == widget.config.refreshInterval * 1000

\* what the configurator saves: a title and a refresh interval
SavedTitles == {"Renamed"}

\* what the Refresh Interval field (type number, min 10) may hold when the
\* user has typed in it: a number, or nothing
TypedIntervals == {<<"3", "0">>, <<>>, <<"5">>, <<"0">>, <<"9", ".", "5">>}

SavedIntervals == {RefreshIntervalTyped(value) : value \in TypedIntervals}

Arrangements == {"side by side", "stacked"}

\* new Date().toISOString() at export time
ExportTimes == {"2025-01-01T00:00:00.000Z"}

NoFile == [text |-> <<>>, widgets |-> <<>>]

\* files the user may pick that the import is expected to refuse
NotJson == <<Punct("{"), Token("key", "widgets"), Punct("[")>>

JsonNull == <<Punct("null")>>

NoWidgets == <<Punct("{"), Token("key", "version"), Token("string", "1.0"), Punct("}")>>

WidgetsNotArray ==
    <<Punct("{"), Token("key", "widgets"), Token("string", "none"), Punct("}")>>

WidgetsAnObject ==
    <<Punct("{"), Token("key", "widgets"),
      Punct("{"), Token("key", "id"), Token("string", "widget-1"), Punct("}"),
      Punct("}")>>

InvalidEntries ==
    <<Punct("{"), Token("key", "widgets"), Punct("["),
      Punct("{"), Token("key", "title"), Token("string", "Broken"), Punct("}"),
      Punct("]"), Punct("}")>>

InvalidFiles == {NotJson, JsonNull, NoWidgets, WidgetsNotArray, WidgetsAnObject,
                 InvalidEntries}

\* a file with an empty list of widgets
EmptyDashboard ==
    <<Punct("{"), Token("key", "widgets"), Punct("["), Punct("]"), Punct("}")>>

\* a widget as a file holds it
WidgetText(title, id) ==
    <<Punct("{"), Token("key", "type"), Token("string", "stock-table"),
      Token("key", "title"), Token("string", title),
      Token("key", "config"), Punct("{"),
         Token("key", "apiSource"), Token("string", "indianapi"),
         Token("key", "refreshInterval"), Token("number", 60), Punct("}"),
      Token("key", "x"), Token("number", 0), Token("key", "y"), Token("number", 0),
      Token("key", "w"), Token("number", 8), Token("key", "h"), Token("number", 6),
      Token("key", "id"), Token("string", id), Punct("}")>>

\* a file edited by hand: a widget was copied and the copy kept its id
CopiedWidget ==
    <<Punct("{"), Token("key", "widgets"), Punct("[")>>
       \o WidgetText("Watchlist", "widget-1") \o WidgetText("Copy", "widget-1")
       \o <<Punct("]"), Punct("}")>>

UserFiles == InvalidFiles \cup {EmptyDashboard, CopiedWidget}

NoImport == [source |-> "none", applied |-> FALSE, replaced |-> FALSE,
             deselected |-> FALSE]

(***************************************************************************)
(* The adapters of lib/adapters/indianApiAdapter.  A response is a parsed  *)
(* JSON value; prices are held in hundredths and a Math.random() draw in   *)
(* hundredths of its range [0, 1).                                         *)
(***************************************************************************)
\* Math.round(n / d) for d > 0
Round(n, d) == (2 * n + d) \div (2 * d)

\* value[key] of a parsed value
Member(value, key) ==
    IF value.t = "object" /\ key \in DOMAIN value.v
    THEN value.v[key]
    ELSE [t |-> "undefined"]

\* Number(value) || 0, for the values of a response: numbers and texts that
\* are not numerals
NumberOrZero(value) == IF value.t = "number" THEN value.v ELSE 0

\* generateMockIndianStockQuote: basePrices
basePrices ==
    [RELIANCE |-> 2850, TCS |-> 4200, HDFCBANK |-> 1650, INFY |-> 1800,
     ICICIBANK |-> 1250, HINDUNILVR |-> 2400, ITC |-> 480, KOTAKBANK |-> 1750,
     LT |-> 3500, BHARTIARTL |-> 1600]

\* generateMockIndianStockQuote, on three draws of Math.random() and one
\* reading of the clock
generateMockIndianStockQuote(symbol, random, clock) ==
    LET basePrice     == IF symbol \in DOMAIN basePrices THEN basePrices[symbol] ELSE 1500
        price         == Round(basePrice * (950 + random[1]), 10)
        changePercent == (random[2] - 50) * 6
        change        == Round(price * changePercent, 10000)
        volume        == random[3] * 10000 + 100000
    IN  [symbol |-> symbol, price |-> price, change |-> change,
         changePercent |-> changePercent, volume |-> volume,
         lastUpdated |-> [iso |-> clock]]

\* parseIndianStockResponse
parseIndianStockResponse(response, symbol, random, clock) ==
    LET mockData == generateMockIndianStockQuote(symbol, random, clock)
    IN  [symbol |-> symbol, price |-> mockData.price, change |-> mockData.change,
         changePercent |-> mockData.changePercent, volume |-> mockData.volume,
         lastUpdated |-> [iso |-> clock]]

\* new Date(time).getTime() for the dates of the responses, in days
DateTime(time) ==
    CASE time = "2024-01-01" -> 19723
      [] time = "2024-01-02" -> 19724
      [] time = "2024-01-03" -> 19725

\* parseIndianHistoryResponse: the candle of one item
Candle(item) ==
    [time |-> IF TruthyValue(Member(item, "date")) THEN Member(item, "date").v ELSE "",
     open |-> NumberOrZero(Member(item, "open")),
     high |-> NumberOrZero(Member(item, "high")),
     low |-> NumberOrZero(Member(item, "low")),
     close |-> NumberOrZero(Member(item, "close")),
     volume |-> NumberOrZero(Member(item, "volume"))]

RECURSIVE Candles(_, _), InsertByTime(_, _), SortedByTime(_, _)

\* response.data.map(...)
Candles(items, i) ==
    IF i > Len(items) THEN <<>>
    ELSE <<Candle(items[i])>> \o Candles(items, i + 1)

\* candle put after the candles of sorted that are not later than it
InsertByTime(sorted, candle) ==
    IF sorted = <<>> THEN <<candle>>
    ELSE IF DateTime(candle.time) < DateTime(Head(sorted).time)
         THEN <<candle>> \o sorted
         ELSE <<Head(sorted)>> \o InsertByTime(Tail(sorted), candle)

\* Array.prototype.sort by time, which is stable
SortedByTime(candles, i) ==
    IF i = 0 THEN <<>>
    ELSE InsertByTime(SortedByTime(candles, i - 1), candles[i])

\* parseIndianHistoryResponse
parseIndianHistoryResponse(response) ==
    IF ~TruthyValue(Member(response, "data")) \/ ~IsArray(Member(response, "data"))
    THEN <<>>
    ELSE LET dated == SelectSeq(Candles(Member(response, "data").v, 1),
                                LAMBDA candle : candle.time # "")
         IN  SortedByTime(dated, Len(dated))

(***************************************************************************)
(* Inputs of the adapters.                                                 *)
(***************************************************************************)
\* what Math.random() returns, in hundredths
RandomDraws == {0, 99}

\* what the clock of the browser reads
ClockReadings == {0, 1}

AdapterSymbols == {"TCS", "NIFTY"}

Number(n) == [t |-> "number", v |-> n]

String(s) == [t |-> "string", v |-> s]

\* one item of the data of a history response
HistoryItem(date, open, high, low, close, volume) ==
    [t |-> "object",
     v |-> [date |-> date, open |-> open, high |-> high, low |-> low,
            close |-> close, volume |-> volume]]

\* the responses the adapters are called with, by name
Response(name) ==
    CASE name = "quote" ->
           [t |-> "object", v |-> [currentPrice |-> Number(420000)]]
      [] name = "no data" ->
           [t |-> "object", v |-> [symbol |-> String("TCS")]]
      [] name = "data not an array" ->
           [t |-> "object", v |-> [data |-> String("none")]]
      [] name = "three days" ->
           [t |-> "object",
            v |-> [data |->
               [t |-> "array",
                v |-> <<HistoryItem(String("2024-01-03"), Number(103), Number(110),
                                    Number(100), Number(105), Number(3000)),
                        HistoryItem(String("2024-01-01"), Number(101), String("n/a"),
                                    Number(99), Number(102), Number(1000)),
                        HistoryItem(String(""), Number(1), Number(1),
                                    Number(1), Number(1), Number(1)),
                        HistoryItem(String("2024-01-02"), Number(102), Number(104),
                                    Number(101), Number(103), Number(2000)),
                        HistoryItem(String("2024-01-01"), Number(201), Number(204),
                                    Number(200), Number(202), Number(500))>>]]]

HistoryResponses == {"no data", "data not an array", "three days"}

NoAdapterCall == [fn |-> "none"]

(***************************************************************************)
(* The generic adapter of lib/adapters/genericAdapter and the JSON mapper  *)
(* of lib/jsonMapper.  The texts they read character by character are      *)
(* sequences of characters; a path is a sequence in which a key counts as  *)
(* one character.  The numbers of a candle are held in hundredths.         *)
(***************************************************************************)
\* the characters of the texts of the responses and of the field names
Characters(s) ==
    CASE s = "" -> <<>>
      [] s = "2024-01-01" -> <<"2", "0", "2", "4", "-", "0", "1", "-", "0", "1">>
      [] s = "2024-01-02" -> <<"2", "0", "2", "4", "-", "0", "1", "-", "0", "2">>
      [] s = "103.5" -> <<"1", "0", "3", ".", "5">>
      [] s = "n/a" -> <<"n", "/", "a">>
      [] s = "N/A" -> <<"N", "/", "A">>
      [] s = "TCS" -> <<"T", "C", "S">>
      [] s = "time" -> <<"t", "i", "m", "e">>
      [] s = "date" -> <<"d", "a", "t", "e">>
      [] s = "timestamp" -> <<"t", "i", "m", "e", "s", "t", "a", "m", "p">>
      [] s = "t" -> <<"t">>
      [] s = "datetime" -> <<"d", "a", "t", "e", "t", "i", "m", "e">>
      [] s = "open" -> <<"o", "p", "e", "n">>
      [] s = "o" -> <<"o">>
      [] s = "opening_price" ->
           <<"o", "p", "e", "n", "i", "n", "g", "_", "p", "r", "i", "c", "e">>
      [] s = "high" -> <<"h", "i", "g", "h">>
      [] s = "h" -> <<"h">>
      [] s = "highest_price" ->
           <<"h", "i", "g", "h", "e", "s", "t", "_", "p", "r", "i", "c", "e">>
      [] s = "max" -> <<"m", "a", "x">>
      [] s = "low" -> <<"l", "o", "w">>
      [] s = "l" -> <<"l">>
      [] s = "lowest_price" ->
           <<"l", "o", "w", "e", "s", "t", "_", "p", "r", "i", "c", "e">>
      [] s = "min" -> <<"m", "i", "n">>
      [] s = "close" -> <<"c", "l", "o", "s", "e">>
      [] s = "c" -> <<"c">>
      [] s = "closing_price" ->
           <<"c", "l", "o", "s", "i", "n", "g", "_", "p", "r", "i", "c", "e">>
      [] s = "price" -> <<"p", "r", "i", "c", "e">>
      [] s = "volume" -> <<"v", "o", "l", "u", "m", "e">>
      [] s = "vol" -> <<"v", "o", "l">>
      [] s = "v" -> <<"v">>
      [] s = "trading_volume" ->
           <<"t", "r", "a", "d", "i", "n", "g", "_", "v", "o", "l", "u", "m", "e">>
      [] s = "Symbol" -> <<"S", "y", "m", "b", "o", "l">>
      [] s = "id" -> <<"i", "d">>

\* a number, or NaN
NaN == [nan |-> TRUE, v |-> 0]

Finite(n) == [nan |-> FALSE, v |-> n]

\* str without its leading digits
RECURSIVE AfterDigits(_)
AfterDigits(str) ==
    IF str = <<>> \/ DigitValue(Head(str)) < 0 THEN str ELSE AfterDigits(Tail(str))

\* parseFloat(str), in hundredths, for texts without an exponent and with at
\* most two decimals: white space, a sign, digits, a point and digits, up to
\* the first other character; NaN when there is no digit
parseFloat(str) ==
    LET t == TrimStart(str)
        negative == t # <<>> /\ Head(t) = "-"
        body == IF t # <<>> /\ Head(t) \in {"-", "+"} THEN Tail(t) ELSE t
        whole == DigitsPrefix(body, 0, FALSE)
        rest == AfterDigits(body)
        decimals == IF rest # <<>> /\ Head(rest) = "." THEN Tail(rest) ELSE <<>>
        tenths == IF decimals # <<>> THEN DigitValue(decimals[1]) ELSE -1
        hundredths == IF tenths >= 0 /\ Len(decimals) >= 2
                      THEN Max(DigitValue(decimals[2]), 0) ELSE 0
        magnitude == whole.v * 100 + Max(tenths, 0) * 10 + hundredths
    IN  IF whole.nan /\ tenths < 0 THEN NaN
        ELSE Finite(IF negative THEN -magnitude ELSE magnitude)

\* String(value) of a number, a text, null or undefined
ToText(value) ==
    CASE value.t = "number" -> NumStr(value.v)
      [] value.t = "string" -> Characters(value.v)
      [] value.t = "null" -> <<"n", "u", "l", "l">>
      [] value.t = "undefined" -> <<"u", "n", "d", "e", "f", "i", "n", "e", "d">>

\* String.prototype.split('.') of a path
RECURSIVE Split(_)
Split(path) ==
    IF path = <<>> THEN <<<<>>>>
    ELSE IF Head(path) = "." THEN <<<<>>>> \o Split(Tail(path))
    ELSE LET parts == Split(Tail(path))
         IN  <<<<Head(path)>> \o Head(parts)>> \o Tail(parts)

\* "typeof data === 'object' && !Array.isArray(data)" of a truthy data
IsPlainObject(value) == value.t = "object"

\* the destructuring of config with its defaults
WithDefaults(config) ==
    [timeField |-> IF "timeField" \in DOMAIN config THEN config.timeField ELSE "time",
     openField |-> IF "openField" \in DOMAIN config THEN config.openField ELSE "open",
     highField |-> IF "highField" \in DOMAIN config THEN config.highField ELSE "high",
     lowField |-> IF "lowField" \in DOMAIN config THEN config.lowField ELSE "low",
     closeField |-> IF "closeField" \in DOMAIN config THEN config.closeField ELSE "close",
     volumeField |-> IF "volumeField" \in DOMAIN config THEN config.volumeField
                     ELSE "volume",
     dataPath |-> IF "dataPath" \in DOMAIN config THEN config.dataPath ELSE <<>>]

\* the loop over pathParts: data after the parts from i on
RECURSIVE Navigated(_, _, _)
Navigated(data, pathParts, i) ==
    IF i > Len(pathParts) \/ ~IsPlainObject(data) THEN data
    ELSE Navigated(Member(data, pathParts[i][1]), pathParts, i + 1)

arrayFields == <<"data", "results", "quotes", "candles", "ohlc", "timeseries">>

\* the first of arrayFields from i on that holds an array in response, else data
RECURSIVE FirstArrayField(_, _, _)
FirstArrayField(response, data, i) ==
    IF i > Len(arrayFields) THEN data
    ELSE IF IsArray(Member(response, arrayFields[i]))
         THEN Member(response, arrayFields[i])
         ELSE FirstArrayField(response, data, i + 1)

\* data when the search for the array is over
DataArray(response, config) ==
    LET dataPath == WithDefaults(config).dataPath
        data == IF dataPath # <<>> THEN Navigated(response, Split(dataPath), 1)
                ELSE response
    IN  IF ~IsArray(data) /\ IsPlainObject(response)
        THEN FirstArrayField(response, data, 1)
        ELSE data

\* "a || b || c" of three values
FirstTruthy(a, b, c) ==
    IF TruthyValue(a) THEN a ELSE IF TruthyValue(b) THEN b ELSE c

\* "parseFloat(String(value || '0')) || 0"
FloatOrZero(value) ==
    LET n == parseFloat(IF TruthyValue(value) THEN ToText(value) ELSE <<"0">>)
    IN  IF n.nan THEN Finite(0) ELSE n

\* "value ? parseFloat(String(value)) : 0"
FloatIfTruthy(value) ==
    IF TruthyValue(value) THEN parseFloat(ToText(value)) ELSE Finite(0)

\* the candle data.map makes of one item that is not null
GenericCandle(item, fields) ==
    LET time == FirstTruthy(Member(item, fields.timeField), Member(item, "date"),
                            Member(item, "timestamp"))
    IN  [time |-> IF TruthyValue(time) THEN ToText(time) ELSE <<>>,
         open |-> FloatOrZero(Member(item, fields.openField)),
         high |-> FloatOrZero(Member(item, fields.highField)),
         low |-> FloatOrZero(Member(item, fields.lowField)),
         close |-> FloatOrZero(Member(item, fields.closeField)),
         volume |-> FloatIfTruthy(Member(item, fields.volumeField))]

RECURSIVE GenericCandles(_, _, _)
GenericCandles(items, fields, i) ==
    IF i > Len(items) THEN <<>>
    ELSE <<GenericCandle(items[i], fields)>> \o GenericCandles(items, fields, i + 1)

\* parseGenericResponse: what it returns, or the TypeError of reading a field
\* of an item that is null
parseGenericResponse(response, config) ==
    LET data == DataArray(response, config)
    IN  IF ~IsArray(data) THEN [threw |-> FALSE, candles |-> <<>>]
        ELSE IF \E i \in 1..Len(data.v) : data.v[i].t \in {"null", "undefined"}
        THEN [threw |-> TRUE, candles |-> <<>>]
        ELSE [threw |-> FALSE,
              candles |-> SelectSeq(GenericCandles(data.v, WithDefaults(config), 1),
                                    LAMBDA candle : candle.time # <<>>)]

\* a configuration that maps nothing: {}
NoMapping == [k \in {} |-> ""]

\* String.prototype.toLowerCase, for the capitals of the texts above
LowerCase(str) ==
    [i \in 1..Len(str) |->
        CASE str[i] = "A" -> "a" [] str[i] = "C" -> "c" [] str[i] = "N" -> "n"
          [] str[i] = "S" -> "s" [] str[i] = "T" -> "t" [] OTHER -> str[i]]

\* String.prototype.includes
Includes(str, part) ==
    \E i \in 0..(Len(str) - Len(part)) : SubSeq(str, i + 1, i + Len(part)) = part

\* Object.keys of an object: its keys in the order of their insertion
KeysOf(value) == value.keys

timePatterns == <<"time", "date", "timestamp", "t", "datetime">>

openPatterns == <<"open", "o", "opening_price">>

highPatterns == <<"high", "h", "highest_price", "max">>

lowPatterns == <<"low", "l", "lowest_price", "min">>

closePatterns == <<"close", "c", "closing_price", "price">>

volumePatterns == <<"volume", "vol", "v", "trading_volume">>

\* findField: the first of fields that includes one of patterns, undefined
\* when none does
findField(fields, patterns) ==
    LET found == {i \in 1..Len(fields) :
                    \E j \in 1..Len(patterns) :
                       Includes(LowerCase(Characters(fields[i])),
                                LowerCase(Characters(patterns[j])))}
    IN  IF found = {} THEN Undefined
        ELSE fields[CHOOSE i \in found : \A k \in found : i <= k]

\* detectFieldMappings
detectFieldMappings(sampleData) ==
    IF ~IsArray(sampleData) \/ Len(sampleData.v) = 0 THEN NoMapping
    ELSE IF sampleData.v[1].t # "object" THEN NoMapping
    ELSE LET fields == KeysOf(sampleData.v[1])
         IN  [timeField |-> findField(fields, timePatterns),
              openField |-> findField(fields, openPatterns),
              highField |-> findField(fields, highPatterns),
              lowField |-> findField(fields, lowPatterns),
              closeField |-> findField(fields, closePatterns),
              volumeField |-> findField(fields, volumePatterns)]

\* typeof value
TypeOf(value) == IF value.t \in {"null", "array"} THEN "object" ELSE value.t

\* one entry of the paths of exploreJSON
JsonPath(path, value, type, isArray) ==
    [path |-> path, value |-> value, type |-> type, isArray |-> isArray]

RECURSIVE explore(_, _, _, _), exploreItems(_, _, _, _, _),
          exploreEntries(_, _, _, _, _)

\* exploreJSON: the entries explore(obj, path, depth) pushes
explore(obj, path, depth, maxDepth) ==
    IF depth > maxDepth \/ obj.t \in {"null", "undefined"} THEN <<>>
    ELSE IF obj.t = "array"
    THEN <<JsonPath(path,
                    [t |-> "string",
                     v |-> <<"Array", "(">> \o NumStr(Len(obj.v)) \o <<")">>],
                    "array", TRUE)>>
            \o exploreItems(obj.v, path, depth, maxDepth, 1)
    ELSE IF obj.t = "object"
    THEN (IF path # <<>>
          THEN <<JsonPath(path, [t |-> "string", v |-> <<"Object">>], "object", FALSE)>>
          ELSE <<>>)
            \o exploreEntries(obj, path, depth, maxDepth, 1)
    ELSE <<JsonPath(path, obj, TypeOf(obj), FALSE)>>

\* "obj.slice(0, 3).forEach((item, index) => ...)", from item i on
exploreItems(items, path, depth, maxDepth, i) ==
    IF i > Len(items) \/ i > 3 THEN <<>>
    ELSE explore(items[i], path \o <<"[">> \o NumStr(i - 1) \o <<"]">>,
                 depth + 1, maxDepth)
            \o exploreItems(items, path, depth, maxDepth, i + 1)

\* "Object.entries(obj).forEach(([key, value]) => ...)", from entry i on
exploreEntries(obj, path, depth, maxDepth, i) ==
    IF i > Len(obj.keys) THEN <<>>
    ELSE LET key == obj.keys[i]
             value == obj.v[key]
             newPath == IF path # <<>> THEN path \o <<".", key>> ELSE <<key>>
         IN  (IF TypeOf(value) = "object" /\ value.t # "null"
              THEN explore(value, newPath, depth + 1, maxDepth)
              ELSE <<JsonPath(newPath, value, TypeOf(value), FALSE)>>)
                \o exploreEntries(obj, path, depth, maxDepth, i + 1)

\* exploreJSON(data, maxDepth)
exploreJSON(data, maxDepth) ==
    IF maxDepth <= 0 THEN <<>> ELSE explore(data, <<>>, 0, maxDepth)

\* the place of the last "[" of part, 0 when it has none
LastBracket(part) ==
    LET places == {i \in 1..Len(part) : part[i] = "["}
    IN  IF places = {} THEN 0 ELSE CHOOSE i \in places : \A k \in places : k <= i

\* part.match(/^(.+)\[(\d+)\]$/)
ArrayMatch(part) ==
    LET open == LastBracket(part)
    IN  IF /\ open >= 2
           /\ part[Len(part)] = "]"
           /\ Len(part) - open >= 2
           /\ \A i \in (open + 1)..(Len(part) - 1) : DigitValue(part[i]) >= 0
        THEN [matched |-> TRUE, arrayName |-> SubSeq(part, 1, open - 1),
              index |-> SubSeq(part, open + 1, Len(part) - 1)]
        ELSE [matched |-> FALSE, arrayName |-> <<>>, index |-> <<>>]

\* current[name] of a current that is not null: a key of an object, else
\* undefined
Property(current, name) ==
    IF current.t = "object" /\ Len(name) = 1 THEN Member(current, name[1])
    ELSE [t |-> "undefined"]

\* current[index] of an array
ItemAt(current, index) ==
    IF index < Len(current.v) THEN current.v[index + 1] ELSE [t |-> "undefined"]

\* the loop of extractField over pathParts, from part i on
RECURSIVE Extracted(_, _, _)
Extracted(current, pathParts, i) ==
    IF i > Len(pathParts) THEN current
    ELSE IF current.t \in {"null", "undefined"} THEN [t |-> "undefined"]
    ELSE LET arrayMatch == ArrayMatch(pathParts[i])
             named == Property(current, arrayMatch.arrayName)
         IN  IF arrayMatch.matched
             THEN Extracted(IF IsArray(named)
                            THEN ItemAt(named, parseInt(arrayMatch.index).v)
                            ELSE named,
                            pathParts, i + 1)
             ELSE Extracted(Property(current, pathParts[i]), pathParts, i + 1)

\* extractField(data, path)
extractField(data, path) ==
    IF path = <<>> THEN data ELSE Extracted(data, Split(path), 1)

(***************************************************************************)
(* Inputs of the generic adapter.                                          *)
(***************************************************************************)
NullValue == [t |-> "null"]

Object(fields) == [t |-> "object", v |-> fields]

Array(items) == [t |-> "array", v |-> items]

\* an object whose keys were inserted in the order of keys
Keyed(keys) ==
    [t |-> "object", keys |-> keys,
     v |-> [k \in {keys[i] : i \in 1..Len(keys)} |-> [t |-> "number", v |-> 1]]]

KnownFields == <<"time", "open", "high", "low", "close", "volume">>

\* the known field names in the orders of the item's keys: the four names
\* that share a letter in every order, before or after the other two
KeyOrders ==
    LET shared == <<"open", "low", "close", "volume">>
        orders == {[i \in 1..Len(shared) |-> shared[order[i]]] :
                     order \in Permutations(1..Len(shared))}
    IN  {<<"time", "high">> \o order : order \in orders}
           \cup {order \o <<"high", "time">> : order \in orders}

\* the fields an item may have before and after the known ones
OtherFields == {<<>>, <<"id">>, <<"Symbol">>}

\* an object with the fields of fields, inserted in the order of keys
Ordered(keys, fields) == [t |-> "object", keys |-> keys, v |-> fields]

\* the values the JSON explorer is given, by name
ExploredData(name) ==
    CASE name = "quote" ->
           Ordered(<<"symbol", "price", "meta">>,
                   [symbol |-> String("TCS"), price |-> Number(4200),
                    meta |-> Ordered(<<"currency", "note">>,
                                     [currency |-> String("INR"),
                                      note |-> NullValue])])
      [] name = "history" ->
           Ordered(<<"data">>,
                   [data |-> Array(<<Ordered(<<"time", "close">>,
                                             [time |-> String("2024-01-01"),
                                              close |-> Number(102)]),
                                     Ordered(<<"time", "close">>,
                                             [time |-> String("2024-01-02"),
                                              close |-> Number(103)])>>)])
      [] name = "prices" ->
           Ordered(<<"prices">>,
                   [prices |-> Array(<<Number(1), Number(2), Number(3), Number(4)>>)])
      [] name = "array at the root" ->
           Array(<<Ordered(<<"price">>, [price |-> Number(4200)])>>)
      [] name = "array of arrays" ->
           Ordered(<<"rows">>,
                   [rows |-> Array(<<Array(<<Number(1), Number(2)>>),
                                     Array(<<Number(3)>>)>>)])
      [] name = "a number" -> Number(5)
      [] name = "deep" ->
           Ordered(<<"a">>,
              [a |-> Ordered(<<"b">>,
                 [b |-> Ordered(<<"c">>,
                    [c |-> Ordered(<<"d">>,
                       [d |-> Ordered(<<"e">>, [e |-> Number(1)])])])])])

ExploredNames == {"quote", "history", "prices", "array at the root",
                  "array of arrays", "a number", "deep"}

\* maxDepth: the default of exploreJSON and what the JSON explorer passes
MaxDepths == {3, 4}

\* the paths extractField is asked for: those the explorer offers, and ''
OfferedPaths(name) ==
    {<<>>} \cup {exploreJSON(ExploredData(name), 4)[i].path :
                    i \in 1..Len(exploreJSON(ExploredData(name), 4))}

\* the samples detectFieldMappings is called with
Samples ==
    {Object([data |-> Array(<<>>)]), Array(<<>>), Array(<<NullValue>>),
     Array(<<[t |-> "number", v |-> 1]>>), Array(<<Array(<<Keyed(KnownFields)>>)>>),
     Array(<<Keyed(<<"date", "price">>)>>)}
       \cup {Array(<<Keyed(keys)>>) : keys \in KeyOrders}
       \cup {Array(<<Keyed(before \o KnownFields \o after), NullValue>>) :
                before \in OtherFields, after \in OtherFields}

\* the responses the generic adapter is called with, by name
GenericResponse(name) ==
    CASE name = "array" ->
           Array(<<Object([time |-> String("2024-01-01"), open |-> Number(101),
                           high |-> Number(104), low |-> Number(99),
                           close |-> Number(102), volume |-> Number(1000)]),
                   Object([open |-> Number(1)]),
                   Object([date |-> String("2024-01-02"), open |-> String("103.5"),
                           high |-> String("n/a"), close |-> Number(0)])>>)
      [] name = "under results" ->
           Object([symbol |-> String("TCS"),
                   results |-> Array(<<Object([timestamp |-> Number(19724),
                                               time |-> String(""),
                                               close |-> Number(102)])>>)])
      [] name = "no array" ->
           Object([symbol |-> String("TCS"), data |-> Object([open |-> Number(1)])])
      [] name = "a text" -> String("TCS")
      [] name = "nested" ->
           Object([chart |-> Object([candles |->
                     Array(<<Object([t |-> String("2024-01-01"), open |-> Number(101),
                                     vol |-> Number(500)])>>)])])
      [] name = "text volume" ->
           Object([data |-> Array(<<Object([time |-> String("2024-01-01"),
                                            open |-> Number(101),
                                            volume |-> String("N/A")])>>)])
      [] name = "null item" ->
           Object([data |-> Array(<<NullValue,
                                    Object([time |-> String("2024-01-01"),
                                            open |-> Number(101)])>>)])

GenericResponses == {"array", "under results", "no array", "a text", "nested",
                     "text volume", "null item"}

\* the configurations of the call: each field is mapped or left out
GenericConfigs ==
    {Spread(Spread(timeField, volumeField), dataPath) :
        timeField \in {NoMapping, [timeField |-> "t"], [timeField |-> "date"]},
        volumeField \in {NoMapping, [volumeField |-> "vol"]},
        dataPath \in {NoMapping, [dataPath |-> <<"chart", ".", "candles">>],
                      [dataPath |-> <<"data">>]}}

(***************************************************************************)
(* The stock detail page: its auto-refresh timer.                          *)
(***************************************************************************)
TimeFrames == {"daily", "weekly", "monthly"}

\* the timers the page may create
MaxTimers == 4

\* the calls of one refetch that are counted
MaxRefetches == 2

\* null, as the value of refreshInterval and of a timer that is not there
NoTimer == 0

\* a variant of the cleanups below in which the auto-refresh effect returns
\* no cleanup
ClearedByUnmountEffect(timeFrame) ==
    IF cleanupInterval # refreshIntervalState THEN {cleanupInterval} ELSE {}

\* the timers cleared by the cleanups of a render with selectedTimeFrame
\* timeFrame: "clearInterval(interval)" of the auto-refresh effect and
\* "clearInterval(refreshInterval)" of the unmount effect, each when the
\* dependencies of its effect changed
Cleared(timeFrame) ==
    (IF autoRefresh.timeFrame # timeFrame THEN {autoRefresh.interval} ELSE {})
       \cup (IF cleanupInterval # refreshIntervalState THEN {cleanupInterval} ELSE {})

\* what a render with selectedTimeFrame timeFrame commits: the cleanups of the
\* effects whose dependencies changed, then these effects.  The refetch
\* functions of the queries keep their identity from render to render, and
\* the render of a click is committed with its effects before a timer can
\* fire.
Commit(timeFrame) ==
    LET autoRefreshRuns == autoRefresh.timeFrame # timeFrame
        kept == {timer \in timers : timer.id \notin Cleared(timeFrame)}
        interval == timerCount + 1
    IN  /\ autoRefreshRuns => timerCount < MaxTimers
        /\ IF autoRefreshRuns
           THEN /\ timers' = kept \cup {[id |-> interval, timeFrame |-> timeFrame]}
                /\ timerCount' = interval
                /\ autoRefresh' = [interval |-> interval, timeFrame |-> timeFrame]
                /\ refreshIntervalState' = interval
           ELSE /\ timers' = kept
                /\ UNCHANGED <<timerCount, autoRefresh, refreshIntervalState>>
        /\ cleanupInterval' = refreshIntervalState

(***************************************************************************)
(* The initial state and the actions of the server.                        *)
(***************************************************************************)
Init ==
    /\ now = 0
    /\ rateLimitStore = EmptyMap
    /\ refStore = EmptyMap
    /\ allowedSince = [id \in Identifiers |-> [start |-> -1, n |-> 0]]
    /\ retryAt = [id \in Identifiers |-> -1]
    /\ lastCall = NoCall
    /\ inflight = {}
    /\ lastRequest = NoRequest
    /\ openedBy = [id \in Identifiers |-> "none"]
    /\ widgets = <<>>
    /\ selectedWidgetId = Null
    /\ theme = "system"
    /\ prefersDark = FALSE
    /\ rootClass = AppliedClass("system", FALSE)
    /\ exportFile = NoFile
    /\ lastImport = NoImport
    /\ firstResult = [k \in {} |-> 0]
    /\ lastAdapterCall = NoAdapterCall
    /\ mounted = "not yet"
    /\ selectedTimeFrame = "daily"
    /\ refreshIntervalState = NoTimer
    /\ timers = {}
    /\ timerCount = 0
    /\ autoRefresh = [interval |-> NoTimer, timeFrame |-> "none"]
    /\ cleanupInterval = NoTimer
    /\ refetched = [timeFrame \in TimeFrames |-> 0]

\* the clock advances
Tick(d) ==
    /\ now + d <= MaxNow
    /\ (now + d) % WINDOW_SIZE <= MaxSkew
    /\ now' = now + d
    /\ lastCall' = NoCall
    /\ UNCHANGED <<rateLimitStore, refStore, allowedSince, retryAt>>

\* one call of rateLimitMiddleware(id)
rateLimitMiddleware(id) ==
    LET res   == LimitResult(rateLimitStore, id, now)
        after == LimitStore(rateLimitStore, id, now)
    IN  /\ rateLimitStore' = after
        /\ refStore' = LimitStore(refStore, id, now)
        /\ lastCall' = [op |-> "limit", id |-> id, res |-> res,
                        ref |-> LimitResult(refStore, id, now),
                        before |-> rateLimitStore]
        /\ allowedSince' = CountAllowed(allowedSince, id, res, after)
        /\ retryAt' = RetryTime(retryAt, id, res, now)
        /\ UNCHANGED now

\* one call of getRateLimitStatus(id)
RateLimitStatus(id) ==
    /\ lastCall' = [op |-> "status", id |-> id,
                    res |-> getRateLimitStatus(rateLimitStore, id, now),
                    ref |-> getRateLimitStatus(refStore, id, now)]
    /\ UNCHANGED <<now, rateLimitStore, refStore, allowedSince, retryAt>>

\* the periodic cleanup
Sweep ==
    /\ rateLimitStore' = Swept(rateLimitStore, now)
    /\ lastCall' = NoCall
    /\ UNCHANGED <<now, refStore, allowedSince, retryAt>>

\* a GET handler, from the request to the response or to its "await fetch"
Handle(route, req, key, id) ==
    LET twin  == OtherKey(key)
        early == EarlyResponse(route, req, key)
        rateLimitResult == LimitResult(rateLimitStore, id, now)
        after == LimitStore(rateLimitStore, id, now)
        entry == [route |-> route, decision |-> "none", fetched |-> FALSE,
                  configured |-> key \in ConfiguredKeys, windowStart |-> -1,
                  params |-> Params(req), outcome |-> NoOutcome,
                  before |-> rateLimitStore, body |-> NoResponse.body,
                  response |-> Summary(NoResponse, NoResponse)]
    IN
    /\ Cardinality(inflight) < MaxInFlight
    /\ IF ~Passes(early)
       THEN /\ lastRequest' =
                  [entry EXCEPT !.body = early.body,
                                !.response = Summary(early, EarlyResponse(route, req, twin))]
            /\ UNCHANGED <<limiterVars, inflight, openedBy>>
       ELSE
         /\ rateLimitStore' = after
         /\ openedBy' = IF rateLimitResult.allowed /\ after[id].count = 1
                        THEN [openedBy EXCEPT ![id] =
                                IF route = "proxy" THEN "proxy" ELSE "another route"]
                        ELSE openedBy
         /\ refStore' = LimitStore(refStore, id, now)
         /\ allowedSince' = CountAllowed(allowedSince, id, rateLimitResult, after)
         /\ retryAt' = RetryTime(retryAt, id, rateLimitResult, now)
         /\ UNCHANGED lastCall
         /\ IF ~Proceeds(rateLimitResult)
            THEN \E t \in LaterReadings :
                    LET response ==
                           RateLimitExceeded(rateLimitResult,
                                             getRateLimitStatus(after, id, t))
                    IN  /\ now' = t
                        /\ lastRequest' =
                              [entry EXCEPT !.decision = "rejected",
                                            !.windowStart = after[id].windowStart,
                                            !.response = Summary(response, response)]
                        /\ UNCHANGED inflight
            ELSE
              LET decision == IF rateLimitResult.allowed THEN "allowed" ELSE "rejected"
                  invalid  == UrlResponse(route, req)
              IN
              IF ~Passes(invalid)
              THEN /\ lastRequest' = [entry EXCEPT !.decision = decision,
                                                   !.body = invalid.body,
                                                   !.response = Summary(invalid, invalid)]
                   /\ UNCHANGED <<now, inflight>>
              ELSE IF route = "indianapi/history"
              THEN \E draw \in MockDraws :
                      LET response == Json(200, MockHistory(req.symbol, draw),
                                           CorsHeaders(Text("public, max-age=300, stale-while-revalidate=600")))
                      IN  /\ lastRequest' =
                                [entry EXCEPT !.decision = decision,
                                              !.response = Summary(response, response)]
                          /\ UNCHANGED <<now, inflight>>
              ELSE /\ inflight' = inflight \cup
                         {[route |-> route, identifier |-> id, func |-> req.function,
                           params |-> Params(req),
                           key |-> key, decision |-> decision,
                           upstream |-> UpstreamRequest(route, req, key),
                           twinUpstream |-> UpstreamRequest(route, req, twin)]}
                   /\ lastRequest' = [entry EXCEPT !.decision = decision,
                                                   !.fetched = TRUE]
                   /\ UNCHANGED now

\* a variant of the handlers below in which the generic proxy route keys the
\* limiter by its own name for the client
GETKeyedByRoute(route, req, key) ==
    \E id \in {IF route = "proxy" THEN "unknown"
                ELSE ClientIdentifier(req.xff, req.xreal)} :
       Handle(route, req, key, id)

GET(route, req, key) ==
    \E id \in {ClientIdentifier(req.xff, req.xreal)} : Handle(route, req, key, id)

\* the upstream fetch of a request settles and its handler answers; the
\* outcome and the body of the answer are kept for the generic proxy
Settle(p, outcome, nodeEnv) ==
    LET st == getRateLimitStatus(rateLimitStore, p.identifier, now)
        response == Settled(p.route, p.func, p.key, outcome, nodeEnv, st)
    IN  /\ p \in inflight
        /\ inflight' = inflight \ {p}
        /\ lastRequest' =
              [route |-> p.route, decision |-> p.decision, fetched |-> TRUE,
               configured |-> p.key \in ConfiguredKeys, windowStart |-> -1,
               params |-> p.params, before |-> rateLimitStore,
               outcome |-> IF p.route = "proxy" THEN outcome ELSE NoOutcome,
               body |-> IF p.route = "proxy" THEN response.body ELSE NoResponse.body,
               response |->
                  Summary(response,
                          Settled(p.route, p.func, OtherKey(p.key), outcome, nodeEnv, st))]
        /\ UNCHANGED <<limiterVars, openedBy>>

\* lastRequest is the request the last step handled, if it handled one
NextRoutes ==
    \/ \E d \in ClockSteps :
          Tick(d) /\ lastRequest' = NoRequest /\ UNCHANGED <<inflight, openedBy, clientVars>>
    \/ Sweep /\ lastRequest' = NoRequest /\ UNCHANGED <<inflight, openedBy, clientVars>>
    \/ \E route \in Routes : \E req \in Requests(route), key \in Keys(route) :
          GET(route, req, key) /\ UNCHANGED clientVars
    \/ \E p \in inflight, outcome \in Outcomes, nodeEnv \in NodeEnvs :
          Settle(p, outcome, nodeEnv) /\ UNCHANGED clientVars

SpecRoutes == Init /\ [][NextRoutes]_vars

(***************************************************************************)
(* The limiter on its own: calls of its two functions, sweeps and time.    *)
(***************************************************************************)
Next ==
    \/ \E d \in ClockSteps : Tick(d) /\ UNCHANGED <<routeVars, clientVars>>
    \/ \E id \in Identifiers : rateLimitMiddleware(id) /\ UNCHANGED <<routeVars, clientVars>>
    \/ \E id \in Identifiers : RateLimitStatus(id) /\ UNCHANGED <<routeVars, clientVars>>
    \/ Sweep /\ UNCHANGED <<routeVars, clientVars>>

Spec == Init /\ [][Next]_vars

(***************************************************************************)
(* The client: the handlers of the dashboard and the reducers they         *)
(* dispatch.                                                               *)
(***************************************************************************)
\* AddWidgetModal.handleCreate, and the addWidget it dispatches
handleCreate(type, title, customUrl, id) ==
    /\ Len(widgets) < MaxWidgets
    /\ IF title = ""
       THEN UNCHANGED widgets
       ELSE widgets' = Append(widgets, NewWidget(CreatedWidget(type, title, customUrl), id))
    /\ lastImport' = NoImport
    /\ UNCHANGED <<selectedWidgetId, theme, prefersDark, rootClass, exportFile>>

\* a variant of the handler below whose removeWidget leaves the selection
handleRemoveKeepsSelection(i) ==
    /\ i \in 1..Len(widgets)
    /\ widgets' = Without(widgets, WidgetId(widgets[i]))
    /\ lastImport' = NoImport
    /\ UNCHANGED <<selectedWidgetId, theme, prefersDark, rootClass, exportFile>>

\* WidgetContainer.handleRemove of the i-th widget: removeWidget(widget.id)
handleRemove(i) ==
    /\ i \in 1..Len(widgets)
    /\ widgets' = Without(widgets, WidgetId(widgets[i]))
    /\ selectedWidgetId' =
          IF selectedWidgetId = WidgetId(widgets[i]) THEN Null ELSE selectedWidgetId
    /\ lastImport' = NoImport
    /\ UNCHANGED <<theme, prefersDark, rootClass, exportFile>>

\* WidgetConfigurator.handleSave for the i-th widget: updateWidget
handleSave(i, title, refreshInterval) ==
    /\ i \in 1..Len(widgets)
    /\ "config" \in DOMAIN widgets[i]
    /\ widgets' = Updated(widgets, WidgetId(widgets[i]),
                          [title |-> title,
                           config |-> Spread(widgets[i].config,
                                             [refreshInterval |-> refreshInterval])])
    /\ lastImport' = NoImport
    /\ UNCHANGED <<selectedWidgetId, theme, prefersDark, rootClass, exportFile>>

\* DashboardShell.handleLayoutChange: updateLayout(newLayout)
handleLayoutChange(arrangement) ==
    /\ widgets' = LaidOut(widgets, GridLayout(widgets, arrangement, 1), 1)
    /\ lastImport' = NoImport
    /\ UNCHANGED <<selectedWidgetId, theme, prefersDark, rootClass, exportFile>>

\* DashboardShell.handleWidgetClick on the i-th widget: selectWidget(widget.id)
handleWidgetClick(i) ==
    /\ i \in 1..Len(widgets)
    /\ selectedWidgetId' = WidgetId(widgets[i])
    /\ lastImport' = NoImport
    /\ UNCHANGED <<widgets, theme, prefersDark, rootClass, exportFile>>

\* DashboardSettings.handleClearDashboard, confirmed: clearDashboard()
handleClearDashboard ==
    /\ Len(widgets) # 0
    /\ widgets' = <<>>
    /\ selectedWidgetId' = Null
    /\ lastImport' = NoImport
    /\ UNCHANGED <<theme, prefersDark, rootClass, exportFile>>

\* DashboardSettings.handleExport: the file it downloads
handleExport(timestamp) ==
    /\ exportFile' =
          [text |-> StringifyObject([version |-> "1.0", timestamp |-> timestamp,
                                     widgets |-> widgets]),
           widgets |-> widgets]
    /\ lastImport' = NoImport
    /\ UNCHANGED <<widgets, selectedWidgetId, theme, prefersDark, rootClass>>

\* DashboardSettings.handleFileChange: reader.onload on the text of the file
handleFileChange(text, source) ==
    \E importData \in {JSONparse(text)} :
       \E accepted \in {/\ importData.ok
                        /\ importData.v.t # "null"
                        /\ TruthyValue(WidgetsOf(importData.v))
                        /\ IsArray(WidgetsOf(importData.v))} :
        /\ IF accepted
           THEN /\ widgets' = Imported(widgets, Plain(WidgetsOf(importData.v)))
                /\ selectedWidgetId' = Null
           ELSE UNCHANGED <<widgets, selectedWidgetId>>
        /\ lastImport' = [source |-> source, applied |-> accepted,
                           replaced |-> widgets' # widgets,
                           deselected |-> selectedWidgetId' # selectedWidgetId]
        /\ UNCHANGED <<theme, prefersDark, rootClass, exportFile>>

\* the user imports the file exported last
ImportExported ==
    /\ exportFile # NoFile
    /\ handleFileChange(exportFile.text, "exported")

\* toggleTheme, and the effect of ThemeProvider
toggleTheme ==
    /\ theme' = Toggled(theme)
    /\ rootClass' = AfterEffects(theme, theme', prefersDark, rootClass)
    /\ UNCHANGED <<widgets, selectedWidgetId, prefersDark, exportFile, lastImport>>

\* ThemeProvider.handleSetTheme: setTheme(newTheme), and the effect
handleSetTheme(newTheme) ==
    /\ theme' = newTheme
    /\ rootClass' = AfterEffects(theme, theme', prefersDark, rootClass)
    /\ UNCHANGED <<widgets, selectedWidgetId, prefersDark, exportFile, lastImport>>

\* the operating system switches between its light and dark appearance
PreferenceChanges ==
    /\ prefersDark' = ~prefersDark
    /\ UNCHANGED <<widgets, selectedWidgetId, theme, rootClass, exportFile, lastImport>>

NextWidgets ==
    \/ \E type \in SelectedTypes, title \in Titles, id \in WidgetIds :
          handleCreate(type, title, "", id) /\ UNCHANGED <<serverVars, adapterVars, pageVars>>
    \/ \E i \in 1..MaxWidgets : handleRemove(i) /\ UNCHANGED <<serverVars, adapterVars, pageVars>>
    \/ \E arrangement \in Arrangements :
          handleLayoutChange(arrangement) /\ UNCHANGED <<serverVars, adapterVars, pageVars>>
    \/ \E i \in 1..MaxWidgets : handleWidgetClick(i) /\ UNCHANGED <<serverVars, adapterVars, pageVars>>
    \/ handleClearDashboard /\ UNCHANGED <<serverVars, adapterVars, pageVars>>

NextStore ==
    \/ NextWidgets
    \/ \E i \in 1..MaxWidgets, title \in SavedTitles, refreshInterval \in SavedIntervals :
          handleSave(i, title, refreshInterval) /\ UNCHANGED <<serverVars, adapterVars, pageVars>>
    \/ toggleTheme /\ UNCHANGED <<serverVars, adapterVars, pageVars>>
    \/ \E newTheme \in Themes : handleSetTheme(newTheme) /\ UNCHANGED <<serverVars, adapterVars, pageVars>>
    \/ PreferenceChanges /\ UNCHANGED <<serverVars, adapterVars, pageVars>>

\* the store of the client under the handlers of the dashboard and the theme
SpecStore == Init /\ [][NextStore]_vars

NextDashboard ==
    \/ NextWidgets
    \/ \E timestamp \in ExportTimes :
          handleExport(timestamp) /\ UNCHANGED <<serverVars, adapterVars, pageVars>>
    \/ ImportExported /\ UNCHANGED <<serverVars, adapterVars, pageVars>>
    \/ \E text \in UserFiles :
          handleFileChange(text, "user") /\ UNCHANGED <<serverVars, adapterVars, pageVars>>

\* the dashboard with its export and import
SpecDashboard == Init /\ [][NextDashboard]_vars

NextSlice ==
    \/ NextWidgets
    \/ \E i \in 1..MaxWidgets, title \in SavedTitles, refreshInterval \in SavedIntervals :
          handleSave(i, title, refreshInterval) /\ UNCHANGED <<serverVars, adapterVars, pageVars>>
    \/ \E text \in UserFiles :
          handleFileChange(text, "user") /\ UNCHANGED <<serverVars, adapterVars, pageVars>>

\* the widgets slice under every handler that dispatches one of its actions
SpecSlice == Init /\ [][NextSlice]_vars

(***************************************************************************)
(* Calls of the adapters.                                                  *)
(***************************************************************************)
\* a call of fn on args has returned result
Returned(fn, args, result) ==
    LET call == <<fn>> \o args
    IN  /\ lastAdapterCall' = [fn |-> fn, call |-> call, result |-> result]
        /\ firstResult' =
              IF call \in DOMAIN firstResult
              THEN firstResult
              ELSE [k \in DOMAIN firstResult \cup {call} |->
                       IF k = call THEN result ELSE firstResult[k]]

\* one call parseIndianStockResponse(response, symbol)
CallStockAdapter(name, symbol, random, clock) ==
    Returned("parseIndianStockResponse", <<name, symbol>>,
             parseIndianStockResponse(Response(name), symbol, random, clock))

\* one call parseIndianHistoryResponse(response)
CallHistoryAdapter(name) ==
    Returned("parseIndianHistoryResponse", <<name>>,
             parseIndianHistoryResponse(Response(name)))

NextAdapters ==
    \/ \E symbol \in AdapterSymbols, clock \in ClockReadings :
          \E random \in RandomDraws \X RandomDraws \X RandomDraws :
             CallStockAdapter("quote", symbol, random, clock)
                /\ UNCHANGED <<serverVars, storeVars, pageVars>>
    \/ \E name \in HistoryResponses :
          CallHistoryAdapter(name) /\ UNCHANGED <<serverVars, storeVars, pageVars>>

\* the adapters under any sequence of calls
SpecAdapters == Init /\ [][NextAdapters]_vars

\* a call of fn on args has returned result
Called(fn, args, result) ==
    /\ lastAdapterCall' = [fn |-> fn, call |-> <<fn>> \o args, result |-> result]
    /\ UNCHANGED firstResult

\* one call parseGenericResponse(response, config)
CallGenericAdapter(name, config) ==
    Called("parseGenericResponse", <<name, config>>,
           parseGenericResponse(GenericResponse(name), config))

\* one call detectFieldMappings(sampleData)
CallDetect(sampleData) ==
    Called("detectFieldMappings", <<sampleData>>, detectFieldMappings(sampleData))

\* one call exploreJSON(data, maxDepth)
CallExplore(name, maxDepth) ==
    Called("exploreJSON", <<name, maxDepth>>, exploreJSON(ExploredData(name), maxDepth))

\* one call extractField(data, path)
CallExtract(name, path) ==
    Called("extractField", <<name, path>>, extractField(ExploredData(name), path))

NextMapper ==
    \/ \E name \in GenericResponses, config \in GenericConfigs :
          CallGenericAdapter(name, config) /\ UNCHANGED <<serverVars, storeVars, pageVars>>
    \/ \E sampleData \in Samples :
          CallDetect(sampleData) /\ UNCHANGED <<serverVars, storeVars, pageVars>>
    \/ \E name \in ExploredNames, maxDepth \in MaxDepths :
          CallExplore(name, maxDepth) /\ UNCHANGED <<serverVars, storeVars, pageVars>>
    \/ \E name \in ExploredNames : \E path \in OfferedPaths(name) :
          CallExtract(name, path) /\ UNCHANGED <<serverVars, storeVars, pageVars>>

\* the generic adapter and the JSON mapper under any sequence of calls
SpecMapper == Init /\ [][NextMapper]_vars

(***************************************************************************)
(* The events of the stock detail page.                                    *)
(***************************************************************************)
\* the page is mounted: the first render and its effects, with the initial
\* state of useState
MountPage ==
    /\ mounted # "mounted"
    /\ timerCount < MaxTimers
    /\ mounted' = "mounted"
    /\ selectedTimeFrame' = "daily"
    /\ timers' = timers \cup {[id |-> timerCount + 1, timeFrame |-> "daily"]}
    /\ timerCount' = timerCount + 1
    /\ autoRefresh' = [interval |-> timerCount + 1, timeFrame |-> "daily"]
    /\ refreshIntervalState' = timerCount + 1
    /\ cleanupInterval' = NoTimer
    /\ UNCHANGED refetched

\* onValueChange of the tabs: setSelectedTimeFrame(value) and the render it
\* causes
selectTimeFrame(value) ==
    /\ mounted = "mounted"
    /\ value # selectedTimeFrame
    /\ selectedTimeFrame' = value
    /\ Commit(value)
    /\ UNCHANGED <<mounted, refetched>>

\* the render caused by setRefreshInterval(interval)
Rerender ==
    /\ mounted = "mounted"
    /\ cleanupInterval # refreshIntervalState
    /\ Commit(selectedTimeFrame)
    /\ UNCHANGED <<mounted, selectedTimeFrame, refetched>>

\* refetch of the query of timeFrame is called
Refetch(timeFrame) ==
    /\ refetched[timeFrame] < MaxRefetches
    /\ refetched' = [refetched EXCEPT ![timeFrame] = @ + 1]

\* a live timer fires: the callback of setInterval, with the selectedTimeFrame
\* of its closure
IntervalFires(timer) ==
    /\ timer \in timers
    /\ Refetch(timer.timeFrame)
    /\ UNCHANGED <<mounted, selectedTimeFrame, refreshIntervalState, timers,
                   timerCount, autoRefresh, cleanupInterval>>

\* handleRefreshManual: the refresh button
handleRefreshManual ==
    /\ mounted = "mounted"
    /\ Refetch(selectedTimeFrame)
    /\ UNCHANGED <<mounted, selectedTimeFrame, refreshIntervalState, timers,
                   timerCount, autoRefresh, cleanupInterval>>

\* the page is unmounted: the cleanups of both effects
UnmountPage ==
    /\ mounted = "mounted"
    /\ mounted' = "unmounted"
    /\ timers' = {timer \in timers :
                     timer.id \notin {autoRefresh.interval, cleanupInterval}}
    /\ UNCHANGED <<selectedTimeFrame, refreshIntervalState, timerCount, autoRefresh,
                   cleanupInterval, refetched>>

NextPage ==
    \/ MountPage /\ UNCHANGED <<serverVars, storeVars, adapterVars>>
    \/ \E value \in TimeFrames :
          selectTimeFrame(value) /\ UNCHANGED <<serverVars, storeVars, adapterVars>>
    \/ Rerender /\ UNCHANGED <<serverVars, storeVars, adapterVars>>
    \/ \E timer \in timers :
          IntervalFires(timer) /\ UNCHANGED <<serverVars, storeVars, adapterVars>>
    \/ handleRefreshManual /\ UNCHANGED <<serverVars, storeVars, adapterVars>>
    \/ UnmountPage /\ UNCHANGED <<serverVars, storeVars, adapterVars>>

\* the stock detail page under any sequence of its events
SpecPage == Init /\ [][NextPage]_vars

(***************************************************************************)
(* Properties of the rate limiter.                                         *)
(***************************************************************************)
TypeOK ==
    /\ now \in 0..MaxNow
    /\ DOMAIN rateLimitStore \subseteq Identifiers
    /\ \A id \in DOMAIN rateLimitStore :
          /\ rateLimitStore[id].count \in 1..MAX_REQUESTS
          /\ rateLimitStore[id].windowStart \in 0..now

\* the last event was a call of rateLimitMiddleware
Limited == lastCall.op = "limit"

\* C1: for every identifier, the calls answered allowed:true since its
\* current window started never exceed MAX_REQUESTS (60): once 60 calls were
\* allowed, a further call inside the window is answered allowed:false.
C1_WindowCap ==
    /\ \A id \in Identifiers : allowedSince[id].n <= MAX_REQUESTS
    /\ \A id \in DOMAIN rateLimitStore :
          allowedSince[id].start = rateLimitStore[id].windowStart
    /\ ( /\ Limited
         /\ lastCall.id \in DOMAIN lastCall.before
         /\ ~Expired(lastCall.before[lastCall.id], now)
         /\ lastCall.before[lastCall.id].count >= MAX_REQUESTS )
       => ~lastCall.res.allowed

\* a call was rejected after MAX_REQUESTS calls were allowed in the window
C1_Witness ==
    /\ Limited
    /\ ~lastCall.res.allowed
    /\ allowedSince[lastCall.id].n = MAX_REQUESTS

\* C2: a call made more than WINDOW_SIZE after the identifier's windowStart
\* is allowed and starts a new window (count 1, windowStart now); no call is
\* rejected once the window of its identifier has ended.
C2_WindowResets ==
    Limited =>
       /\ ( /\ lastCall.id \in DOMAIN lastCall.before
            /\ now - lastCall.before[lastCall.id].windowStart > WINDOW_SIZE )
          => /\ lastCall.res.allowed
             /\ rateLimitStore[lastCall.id] = [count |-> 1, windowStart |-> now]
       /\ ~lastCall.res.allowed
          => /\ lastCall.id \in DOMAIN lastCall.before
             /\ now - lastCall.before[lastCall.id].windowStart <= WINDOW_SIZE

\* an identifier that had filled its window is allowed again after the window
C2_Witness ==
    /\ Limited
    /\ lastCall.res.allowed
    /\ lastCall.id \in DOMAIN lastCall.before
    /\ lastCall.before[lastCall.id].count = MAX_REQUESTS
    /\ Expired(lastCall.before[lastCall.id], now)

\* the store with only the entry of id
OnlyEntry(store, id) == [k \in DOMAIN store \cap {id} |-> store[k]]

\* the store without the entry of id
OtherEntries(store, id) == [k \in DOMAIN store \ {id} |-> store[k]]

\* C3: a call for one identifier leaves the entry of every other identifier
\* unchanged, and its result and its new entry are the ones computed from
\* its own entry and the current time alone.
C3_PerIdentifier ==
    Limited =>
       /\ OtherEntries(rateLimitStore, lastCall.id)
             = OtherEntries(lastCall.before, lastCall.id)
       /\ lastCall.res
             = LimitResult(OnlyEntry(lastCall.before, lastCall.id), lastCall.id, now)
       /\ OnlyEntry(rateLimitStore, lastCall.id)
             = LimitStore(OnlyEntry(lastCall.before, lastCall.id), lastCall.id, now)

\* one identifier starts a new window while the other one is in its window
C3_Witness ==
    /\ Limited
    /\ lastCall.id \in DOMAIN lastCall.before
    /\ Expired(lastCall.before[lastCall.id], now)
    /\ \E b \in DOMAIN rateLimitStore \ {lastCall.id} :
          /\ rateLimitStore[b].count > 1
          /\ ~Expired(rateLimitStore[b], now)

\* C10: the sweep deletes only expired entries, and every result of
\* rateLimitMiddleware and getRateLimitStatus equals the result of the same
\* limiter run on the same calls without any sweep.
C10_SweepInvisible ==
    /\ lastCall.op # "none" => lastCall.res = lastCall.ref
    /\ \A id \in DOMAIN refStore \ DOMAIN rateLimitStore : Expired(refStore[id], now)
    /\ \A id \in DOMAIN rateLimitStore :
          id \in DOMAIN refStore /\ rateLimitStore[id] = refStore[id]

\* a call is answered after the sweep deleted the expired entry of its identifier
C10_Witness ==
    /\ lastCall.op = "status"
    /\ lastCall.id \in DOMAIN refStore \ DOMAIN rateLimitStore

\* C11: a call rejected at time t carries a retryAfter r between 1 and 60,
\* and a call by the same identifier at a time >= t + r * 1000 (the time the
\* last rejection told it to retry at) is answered allowed:true.
C11_RetryAfterHonoured ==
    [][\A id \in Identifiers :
          rateLimitMiddleware(id)
             => /\ ~lastCall'.res.allowed => lastCall'.res.retryAfter \in 1..60
                /\ (retryAt[id] >= 0 /\ now >= retryAt[id])
                   => lastCall'.res.allowed]_vars

\* C13: a call answered allowed:false leaves the store as it found it (the
\* count and the windowStart of its identifier included), and no count ever
\* exceeds MAX_REQUESTS.
C13_RejectionKeepsStore ==
    /\ (Limited /\ ~lastCall.res.allowed) => rateLimitStore = lastCall.before
    /\ \A id \in DOMAIN rateLimitStore : rateLimitStore[id].count <= MAX_REQUESTS

\* a call was rejected later than the start of its window
C13_Witness ==
    /\ Limited
    /\ ~lastCall.res.allowed
    /\ now > rateLimitStore[lastCall.id].windowStart
    /\ rateLimitStore[lastCall.id].count = MAX_REQUESTS

\* C14: getRateLimitStatus leaves the store as it is and returns a remaining
\* within 0..60 that is 60 minus the calls allowed in the identifier's
\* current window, and 60 when the identifier has no entry or its window
\* has expired.
C14_StatusReportsRemaining ==
    [][\A id \in Identifiers :
          RateLimitStatus(id)
             => /\ rateLimitStore' = rateLimitStore
                /\ lastCall'.res.remaining \in 0..MAX_REQUESTS
                /\ lastCall'.res.remaining =
                      IF \/ id \notin DOMAIN rateLimitStore
                         \/ now - rateLimitStore[id].windowStart > WINDOW_SIZE
                      THEN MAX_REQUESTS
                      ELSE MAX_REQUESTS - allowedSince[id].n]_vars

\* the status of an identifier whose window has expired, before any sweep
C14_Witness ==
    /\ lastCall.op = "status"
    /\ lastCall.id \in DOMAIN rateLimitStore
    /\ Expired(rateLimitStore[lastCall.id], now)
    /\ rateLimitStore[lastCall.id].count > 1
    /\ lastCall.res.remaining = MAX_REQUESTS

(***************************************************************************)
(* Properties of the proxy routes.                                         *)
(***************************************************************************)
\* C4: in every route a request the limiter rejected is answered 429 'Rate
\* limit exceeded' without any upstream fetch, and an upstream fetch is
\* issued only for a request the limiter allowed.
C4_RejectedNeverFetched ==
    /\ lastRequest.decision = "rejected"
       => /\ lastRequest.response.status = 429
          /\ lastRequest.response.limited
          /\ ~lastRequest.fetched
    /\ lastRequest.fetched => lastRequest.decision = "allowed"
    /\ \A p \in inflight : p.decision = "allowed"

\* a route rejected a request
C4_Witness ==
    /\ lastRequest.route \in Routes
    /\ lastRequest.decision = "rejected"
    /\ lastRequest.response.limited
    /\ ~lastRequest.fetched

\* C12: every 429 of the limiter reports X-RateLimit-Remaining 0 and an
\* X-RateLimit-Reset that is the end, in seconds, of the window the request
\* was rejected in, also when the clock moves on between the decision of
\* rateLimitMiddleware and the call of getRateLimitStatus.
C12_HeadersOfRejection ==
    lastRequest.decision = "rejected"
       => /\ lastRequest.response.status = 429
          /\ lastRequest.response.headers.remaining = NumStr(0)
          /\ lastRequest.response.headers.reset
                = NumStr(Ceil(lastRequest.windowStart + WINDOW_SIZE, 1000))

\* C15: the routes share one store: the requests of one client (here
\* 10.0.0.1, from the first x-forwarded-for entry or from x-real-ip) are
\* counted under one identifier whatever the route, at most MAX_REQUESTS
\* (60) of them are allowed in one window, and a request is rejected only
\* once 60 were allowed in the window.
C15_SharedAcrossRoutes ==
    /\ DOMAIN rateLimitStore \subseteq {"10.0.0.1"}
    /\ allowedSince["10.0.0.1"].n <= MAX_REQUESTS
    /\ lastRequest.decision = "rejected" => allowedSince["10.0.0.1"].n = MAX_REQUESTS
    /\ \A p \in inflight : p.identifier = "10.0.0.1"

\* a route rejects a request in a window that a request to another route opened
C15_Witness ==
    /\ lastRequest.decision = "rejected"
    /\ lastRequest.route = "indianapi/stocks"
    /\ openedBy["10.0.0.1"] = "proxy"
    /\ allowedSince["10.0.0.1"].n = MAX_REQUESTS

\* the routes of C16
ValidatingRoutes == {"indianapi/stocks", "indianapi/history", "coinbase/candles",
                     "alphavantage"}

\* the request lacks a parameter the route requires
RefusedByValidation(route, req) ==
    \/ route \in {"indianapi/stocks", "indianapi/history", "coinbase/candles"}
       /\ req.symbol \in {Missing, ""}
    \/ route = "alphavantage"
       /\ req.function \notin {"TIME_SERIES_INTRADAY", "TIME_SERIES_DAILY",
                                "TIME_SERIES_WEEKLY", "TIME_SERIES_MONTHLY",
                                "GLOBAL_QUOTE", "SYMBOL_SEARCH"}

\* the route needs INDIAN_STOCK_API and it is not set
RefusedForKey(route, configured) ==
    route \in {"indianapi/stocks", "indianapi/history"} /\ ~configured

\* C16: in the indianapi stocks and history routes, the coinbase candles
\* route and the alphavantage route, a request refused by the validation of
\* its parameters is answered 400, and one refused for the missing API key
\* 500, before rateLimitMiddleware is called: no limiter decision is taken
\* and the store stays as the handler found it.
C16_RefusedBeforeLimiter ==
    ( /\ lastRequest.route \in ValidatingRoutes
      /\ \/ RefusedByValidation(lastRequest.route, lastRequest.params)
         \/ RefusedForKey(lastRequest.route, lastRequest.configured) )
    => /\ lastRequest.response.status =
             IF RefusedByValidation(lastRequest.route, lastRequest.params)
             THEN 400 ELSE 500
       /\ lastRequest.decision = "none"
       /\ ~lastRequest.fetched
       /\ ~lastRequest.response.limited
       /\ rateLimitStore = lastRequest.before

\* a request without its symbol was refused while the window of its sender
\* was open and not full
C16_Witness ==
    /\ lastRequest.route = "coinbase/candles"
    /\ lastRequest.decision = "none"
    /\ lastRequest.response.status = 400
    /\ "10.0.0.1" \in DOMAIN rateLimitStore
    /\ rateLimitStore["10.0.0.1"].count \in 2..(MAX_REQUESTS - 1)
    /\ ~Expired(rateLimitStore["10.0.0.1"], now)

\* C17: what the generic proxy answers to a request the limiter allowed: 400
\* without an upstream fetch when the url parameter is missing or is not a
\* URL; the upstream status, with an error body, when the upstream response
\* is not OK; 408 when the fetch fails with an error named AbortError; 500
\* on any other failure; and 200, with the upstream JSON, only when the
\* upstream response was OK.
C17_ProxyStatuses ==
    (lastRequest.route = "proxy" /\ lastRequest.decision = "allowed")
    => /\ (lastRequest.params.url.text \in {Missing, ""} \/ ~lastRequest.params.url.valid)
          => /\ lastRequest.response.status = 400
             /\ "error" \in DOMAIN lastRequest.body
             /\ ~lastRequest.fetched
       /\ lastRequest.outcome.kind = "status"
          => /\ lastRequest.response.status = lastRequest.outcome.status
             /\ "error" \in DOMAIN lastRequest.body
       /\ lastRequest.outcome.kind = "throw"
          => lastRequest.response.status =
                IF lastRequest.outcome.name = "AbortError" THEN 408 ELSE 500
       /\ (lastRequest.outcome.kind = "ok" /\ lastRequest.outcome.data.kind = "invalid")
          => lastRequest.response.status = 500
       /\ lastRequest.response.status = 200
          => /\ lastRequest.fetched
             /\ lastRequest.outcome.kind = "ok"
             /\ lastRequest.body = lastRequest.outcome.data

\* the fetch of the generic proxy was aborted
C17_Witness ==
    /\ lastRequest.route = "proxy"
    /\ lastRequest.decision = "allowed"
    /\ lastRequest.outcome.kind = "throw"
    /\ lastRequest.outcome.name = "AbortError"
    /\ lastRequest.response.status = 408

\* the six functions of C18
SixFunctions == {"TIME_SERIES_INTRADAY", "TIME_SERIES_DAILY", "TIME_SERIES_WEEKLY",
                 "TIME_SERIES_MONTHLY", "GLOBAL_QUOTE", "SYMBOL_SEARCH"}

\* C18: the alphavantage route sends a request upstream only when its
\* function parameter is one of the six supported functions; a request with
\* no function or with another one is answered 400 with the list of the
\* supported functions, and nothing is fetched for it.
C18_OnlySupportedForwarded ==
    /\ \A p \in inflight : p.route = "alphavantage" => p.func \in SixFunctions
    /\ (lastRequest.route = "alphavantage" /\ lastRequest.fetched)
       => lastRequest.params.function \in SixFunctions
    /\ ( /\ lastRequest.route = "alphavantage"
         /\ lastRequest.params.function \notin SixFunctions )
       => /\ lastRequest.response.status = 400
          /\ "supportedFunctions" \in DOMAIN lastRequest.body
          /\ lastRequest.body.supportedFunctions = SixFunctions
          /\ lastRequest.decision = "none"

\* a request for a function outside the list was answered
C18_Witness ==
    /\ lastRequest.route = "alphavantage"
    /\ lastRequest.params.function = "FX_DAILY"
    /\ lastRequest.response.status = 400
    /\ ~lastRequest.fetched

\* C5: what the indianapi list and stocks routes answer is the same for the
\* two configured values of INDIAN_STOCK_API, whatever the request and the
\* upstream outcome; the key goes upstream in the X-Api-Key header.
C5_KeyNotExposed ==
    /\ (lastRequest.route \in KeyedRoutes /\ lastRequest.configured)
       => lastRequest.response.keyFree
    /\ \A p \in inflight :
          (p.route \in KeyedRoutes /\ p.key \in ConfiguredKeys)
          => /\ p.upstream.apiKeyHeader = p.key
             /\ p.twinUpstream.apiKeyHeader = OtherKey(p.key)
             /\ p.upstream # p.twinUpstream

\* a keyed route with a configured key answered an upstream failure
C5_Witness ==
    /\ lastRequest.route \in KeyedRoutes
    /\ lastRequest.configured
    /\ lastRequest.fetched
    /\ lastRequest.response.status = 500

(***************************************************************************)
(* Properties of the adapters.                                             *)
(***************************************************************************)
\* C6: every adapter is a function of its arguments: a call returns what the
\* first call with the same arguments returned, whatever the clock reads and
\* whatever Math.random() draws.
C6_AdaptersPure ==
    lastAdapterCall.fn # "none"
       => lastAdapterCall.result = firstResult[lastAdapterCall.call]

(***************************************************************************)
(* Properties of the dashboard.                                            *)
(***************************************************************************)
\* C7: once the file exported last is imported, the widgets are the exported
\* list (same widgets, same order, same fields) and no widget is selected,
\* whatever the dashboard held before the import.
C7_RoundTrip ==
    lastImport.source = "exported"
       => /\ lastImport.applied
          /\ widgets = exportFile.widgets
          /\ selectedWidgetId = Null

\* an import of the exported file has replaced other widgets by two exported
\* widgets, the second one moved by the grid, and has dropped a selection
C7_Witness ==
    /\ lastImport.source = "exported"
    /\ lastImport.replaced
    /\ lastImport.deselected
    /\ Len(widgets) = 2
    /\ widgets[1].type # widgets[2].type
    /\ widgets[2].y # 0

\* C8: importing a file that is not JSON, has no widgets, has widgets that
\* are not an array, or has entries that are not widgets, does not apply
\* importDashboard and leaves the widgets and the selection as they were.
C8_InvalidFilesRefused ==
    [][\A text \in InvalidFiles :
          handleFileChange(text, "user")
             => /\ ~lastImport'.applied
                /\ UNCHANGED <<widgets, selectedWidgetId>>]_vars

\* C9: toggleTheme changes the class applied to the document, whatever the
\* stored theme and the preference of the system.
C9_ToggleChangesClass == [][toggleTheme => rootClass' # rootClass]_vars

C20_DistinctIds ==
    \A i, j \in 1..Len(widgets) :
       i # j => WidgetId(widgets[i]) # WidgetId(widgets[j])

\* C21: the refreshInterval of a widget saved through the configurator is
\* at least 10 (seconds), an empty or non-numeric input giving 60, and the
\* pollingInterval of its queries (refreshInterval * 1000) is at least
\* 10000 ms.
C21_RefreshAtLeastTen ==
    /\ RefreshIntervalTyped(<<>>) = 60
    /\ RefreshIntervalTyped(<<"a", "b", "c">>) = 60
    /\ \A i \in 1..Len(widgets) :
          "config" \in DOMAIN widgets[i]
             => /\ widgets[i].config.refreshInterval >= 10
                /\ PollingInterval(widgets[i]) >= 10000

\* the texts of the times of the items from i on that have a time: the mapped
\* time field, else date, else timestamp
RECURSIVE TimesOf(_, _, _)
TimesOf(items, timeField, i) ==
    IF i > Len(items) THEN <<>>
    ELSE LET time == FirstTruthy(Member(items[i], timeField),
                                 Member(items[i], "date"),
                                 Member(items[i], "timestamp"))
         IN  (IF TruthyValue(time) THEN <<ToText(time)>> ELSE <<>>)
                \o TimesOf(items, timeField, i + 1)

\* C22: parseGenericResponse returns [] when there is no array at dataPath
\* nor under data, results, quotes, candles, ohlc, timeseries; otherwise it
\* returns, in the order of the input, one candle for each item that has a
\* non-empty time, and open, high, low, close and volume of every candle
\* are numbers, never NaN.
C22_GenericCandles ==
    lastAdapterCall.fn = "parseGenericResponse"
       => LET config == lastAdapterCall.call[3]
              data == DataArray(GenericResponse(lastAdapterCall.call[2]), config)
              result == lastAdapterCall.result
          IN  /\ ~result.threw
              /\ ~IsArray(data) => result.candles = <<>>
              /\ IsArray(data)
                    => [i \in 1..Len(result.candles) |-> result.candles[i].time]
                          = TimesOf(data.v, WithDefaults(config).timeField, 1)
              /\ \A i \in 1..Len(result.candles) :
                    /\ ~result.candles[i].open.nan
                    /\ ~result.candles[i].high.nan
                    /\ ~result.candles[i].low.nan
                    /\ ~result.candles[i].close.nan
                    /\ ~result.candles[i].volume.nan

\* the entry of paths reports a primitive value: not an array, not an object
Primitive(entry) == ~entry.isArray /\ entry.value.t \notin {"object", "array"}
                       /\ ~(entry.type = "object" /\ entry.value.t = "string")

\* C23: for every path that exploreJSON(data) reports with a primitive value,
\* extractField(data, path) returns that value, and extractField(data, '')
\* returns data.
C23_OfferedPathsResolve ==
    lastAdapterCall.fn = "extractField"
       => LET data == ExploredData(lastAdapterCall.call[2])
              path == lastAdapterCall.call[3]
              paths == exploreJSON(data, 4)
          IN  /\ path = <<>> => lastAdapterCall.result = data
              /\ \A i \in 1..Len(paths) :
                    paths[i].path = path /\ Primitive(paths[i])
                       => lastAdapterCall.result = paths[i].value

\* C24: when the first item of the sample has fields named time, open, high,
\* low, close and volume, detectFieldMappings maps each of the six fields to
\* the field of its name, whatever the order of the keys and the other
\* fields; it returns {} for a sample that is not an array, is empty, or whose
\* first item is not an object.
C24_KnownFieldsDetected ==
    lastAdapterCall.fn = "detectFieldMappings"
       => LET sampleData == lastAdapterCall.call[2]
              result == lastAdapterCall.result
              isSample == /\ IsArray(sampleData)
                          /\ Len(sampleData.v) > 0
                          /\ sampleData.v[1].t = "object"
          IN  /\ ~isSample => result = NoMapping
              /\ /\ isSample
                 /\ \A i \in 1..Len(KnownFields) :
                       \E j \in 1..Len(sampleData.v[1].keys) :
                          sampleData.v[1].keys[j] = KnownFields[i]
                 => result = [timeField |-> "time", openField |-> "open",
                              highField |-> "high", lowField |-> "low",
                              closeField |-> "close", volumeField |-> "volume"]

\* C25: on the stock detail page at most one auto-refresh timer is live at
\* any time; a refetch is issued only for the query of the selected
\* timeframe, so the timer of the previous timeframe never fires after a
\* change; once the page is unmounted no timer remains and no refetch is
\* issued.
C25_OneLiveTimer ==
    /\ [](Cardinality(timers) <= 1)
    /\ [](mounted = "unmounted" => timers = {})
    /\ [][\A timeFrame \in TimeFrames :
             refetched'[timeFrame] # refetched[timeFrame]
                => mounted = "mounted" /\ timeFrame = selectedTimeFrame]_vars

\* the page was unmounted after its timer had refetched the weekly and the
\* monthly query
C25_Witness ==
    /\ mounted = "unmounted"
    /\ timers = {}
    /\ timerCount >= 3
    /\ refetched["weekly"] > 0
    /\ refetched["monthly"] > 0

====
